---------------------------- MODULE Spec2Model ----------------------------
(***************************************************************************)
(* A model of the Windows-Itanium C runtime bootstrap: the pseudo-          *)
(* relocation processor, the init-once guarded startup orchestrator, the    *)
(* security cookie and the CRT section walkers (_initterm).                 *)
(*                                                                          *)
(* Machine integers are little-endian byte tuples (<<b0, b1, ...>>), so     *)
(* that 32- and 64-bit arithmetic keeps its real width.  Addresses are      *)
(* naturals.  Each thread has a stack of code labels; an action is one      *)
(* step of the function whose label is on top of the stack.                 *)
(***************************************************************************)
EXTENDS Integers, Sequences, FiniteSets, TLC

(***************************************************************************)
(* Bounds of the model.                                                     *)
(***************************************************************************)
NumThreads == 2
MaxCalls == 2
MaxEntries == 2

Threads == 1..NumThreads

(***************************************************************************)
(* Fixed-width integers as little-endian byte tuples.                       *)
(***************************************************************************)
Pow256(k) == CASE k = 0 -> 1 [] k = 1 -> 256 [] k = 2 -> 65536 [] OTHER -> 16777216

\* The w-byte representation of a natural below 2^31.
Nat2B(n, w) == [k \in 1..w |-> IF k > 4 THEN 0 ELSE (n \div Pow256(k - 1)) % 256]

\* The natural a (at most 4-byte, below 2^31) tuple stands for.
B2Nat(b) == LET d(k) == IF k <= Len(b) THEN b[k] * Pow256(k - 1) ELSE 0
            IN  d(1) + d(2) + d(3) + d(4)

RECURSIVE AddFrom(_, _, _, _)
AddFrom(a, b, k, carry) ==
    IF k > Len(a) THEN <<>>
    ELSE LET s == a[k] + b[k] + carry
         IN  <<s % 256>> \o AddFrom(a, b, k + 1, s \div 256)

\* a + b modulo 2^(8 * Len(a)); a and b have the same width.
AddB(a, b) == AddFrom(a, b, 1, 0)
NotB(a) == [k \in 1..Len(a) |-> 255 - a[k]]
NegB(a) == AddB(NotB(a), Nat2B(1, Len(a)))
SubB(a, b) == AddB(a, NegB(b))
IsNegB(a) == a[Len(a)] >= 128
SignExtend(a, w) ==
    [k \in 1..w |-> IF k <= Len(a) THEN a[k] ELSE IF IsNegB(a) THEN 255 ELSE 0]
ZeroExtend(a, w) == [k \in 1..w |-> IF k <= Len(a) THEN a[k] ELSE 0]
Truncate(a, w) == [k \in 1..w |-> a[k]]
\* The byte tuple of -n for a natural n below 2^31.
NegNat2B(n, w) == NegB(Nat2B(n, w))

RECURSIVE BitAnd(_, _)
BitAnd(a, b) ==
    IF a = 0 \/ b = 0 THEN 0
    ELSE (a % 2) * (b % 2) + 2 * BitAnd(a \div 2, b \div 2)

RECURSIVE BitXor(_, _)
BitXor(a, b) ==
    IF a = 0 THEN b
    ELSE IF b = 0 THEN a
    ELSE ((a + b) % 2) + 2 * BitXor(a \div 2, b \div 2)

BitOr(a, b) == a + b - BitAnd(a, b)

XorB(a, b) == [k \in 1..Len(a) |-> BitXor(a[k], b[k])]
AndB(a, b) == [k \in 1..Len(a) |-> BitAnd(a[k], b[k])]
OrB(a, b) == [k \in 1..Len(a) |-> BitOr(a[k], b[k])]
\* a << (8 * n) in the width of a.
ShlBytes(a, n) == [k \in 1..Len(a) |-> IF k <= n THEN 0 ELSE a[k - n]]

(***************************************************************************)
(* Build target: pointer width (crt_windows_internal.h architecture         *)
(* detection).                                                              *)
(***************************************************************************)
Archs == {"x64", "x86"}
PtrSize(a) == IF a = "x64" THEN 8 ELSE 4


(***************************************************************************)
(* Program constants.                                                       *)
(***************************************************************************)
kPageReadonly == 2
kPageReadwrite == 4
kPageExecute == 16
kPageExecuteRead == 32
kPageExecuteReadwrite == 64
\* RuntimeError::CrtInit and the __fastfail code.
CrtInit == 27
FastFailStackCookieCheckFailure == 2
kRelocFlagSize8 == 8
kRelocFlagSize16 == 16
kRelocFlagSize32 == 32
kRelocFlagSize64 == 64
kMaxModifiedSections == 64

(***************************************************************************)
(* The loaded image.  Offsets are relative to the image base; only the      *)
(* bytes of the import slot and of the possible relocation targets are      *)
(* kept.  Pages are 4096 bytes: .idata on page 2, .rdata/.data on pages 3   *)
(* and 4, .text on page 5.                                                  *)
(***************************************************************************)
Layout == [iat |-> 8192,      \* 0x2000, the import slot (sym)
           dataA |-> 12288,   \* 0x3000
           dataB |-> 12304,   \* 0x3010, same page as dataA
           dataS |-> 16382,   \* 0x3FFE, a target that straddles pages 3 and 4
           text |-> 20480]    \* 0x5000, executable page

PageOf(addr) == addr \div 4096

\* GetModuleHandleW(nullptr): the load address of the main executable.
getImageBase == 4194304

SlotAddrs == {getImageBase + Layout[f] : f \in DOMAIN Layout}
MemAddrs == UNION {a..(a + 7) : a \in SlotAddrs}
ImagePages == {PageOf(a) : a \in MemAddrs}
IatPage == PageOf(getImageBase + Layout.iat)
DataPages == {PageOf(getImageBase + Layout.dataA), PageOf(getImageBase + Layout.dataS + 7)}
TextPage == PageOf(getImageBase + Layout.text)

\* __builtin_memcpy from / to process memory.
Load(m, addr, n) == [k \in 1..n |-> m[addr + k - 1]]
Store(m, addr, bytes) ==
    [a \in DOMAIN m |-> IF a >= addr /\ a < addr + Len(bytes)
                        THEN bytes[a - addr + 1] ELSE m[a]]

(***************************************************************************)
(* Relocation tables: sequences of DWORDs (4-byte tuples).                  *)
(***************************************************************************)
W(n) == Nat2B(n, 4)
PseudoRelocHeader(version) == <<W(0), W(0), W(version)>>
PseudoRelocV2(sym, target, flags) == <<W(sym), W(target), W(flags)>>
PseudoRelocV1(addend, target) == <<addend, W(target)>>

RECURSIVE SeqsOfLen(_, _)
SeqsOfLen(S, n) ==
    IF n = 0 THEN {<<>>}
    ELSE {e \o s : e \in S, s \in SeqsOfLen(S, n - 1)}
SeqsUpTo(S, n) == UNION {SeqsOfLen(S, k) : k \in 0..n}

VARIABLES
    arch,                 \* build target, "x64" or "x86"
    proc,                 \* "running", or how the process ended
    status,               \* the code given to the function that ended it
    debugOut,             \* messages given to OutputDebugStringA
    stack,                \* per thread: the code labels it is in, innermost first
    calls,                \* per thread: top-level calls made so far
    initOnce,             \* the INIT_ONCE guards: "common", "reloc"
    table,                \* __RUNTIME_PSEUDO_RELOC_LIST__ .. _END__, as DWORDs
    mem,                  \* process memory, address -> byte
    prot,                 \* page -> protection flags
    vpFail,               \* pages whose protection the OS refuses to change
    g_modifiedSections,   \* the g_numModifiedSections records in use
    reloc,                \* per thread: doPseudoReloc's entry pointer (word index)
    origProt,             \* history: page protections when the image was loaded
    applied,              \* history: word indices of the entries written to memory
    passes,               \* history: number of times doPseudoReloc was entered
    osCalls               \* history: number of VirtualQuery / VirtualProtect calls

relocVars == <<table, mem, prot, vpFail, g_modifiedSections, reloc, origProt,
               applied, passes, osCalls>>

\* The link job of the compiler driver (WindowsItanium.cpp): no part of the
\* running process.
VARIABLES
    Args,                 \* the driver's command line, as a sequence of options
    T,                    \* the architecture of the target triple
    CmdArgs               \* the linker command line built so far

\* The process command line (the string GetCommandLine returns, without its
\* terminating NUL), and the locals cmdline (an index into it, 0 before any
\* call) and inQuotes of getWinMainCmdLineImpl.
VARIABLES cmdLine, cmdPtr, inQuotes
cmdVars == <<cmdLine, cmdPtr, inQuotes>>

driverVars == <<Args, T, CmdArgs, cmdVars>>

(***************************************************************************)
(* Memory-protection primitives of the OS.                                  *)
(***************************************************************************)
\* VirtualProtect changes every page that holds a byte of [addr, addr+size)
\* and reports the previous protection of the first of them.
VirtualProtect(pr, addr, size, newProtect) ==
    LET pages == PageOf(addr)..PageOf(addr + size - 1)
        ok == size > 0 /\ pages \subseteq DOMAIN pr /\ pages \cap vpFail = {}
    IN  [ok |-> ok,
         old |-> IF ok THEN pr[PageOf(addr)] ELSE 0,
         prot |-> IF ok THEN [p \in DOMAIN pr |-> IF p \in pages THEN newProtect ELSE pr[p]]
                  ELSE pr]

\* VirtualQuery: the protection of the page that holds addr.
VirtualQuery(pr, addr) == pr[PageOf(addr)]

getWritableProtection(currentProtect) ==
    LET isExecutable ==
            BitAnd(currentProtect,
                   BitOr(kPageExecute, BitOr(kPageExecuteRead, kPageExecuteReadwrite))) # 0
    IN  IF isExecutable THEN kPageExecuteReadwrite ELSE kPageReadwrite

\* Not the program: makeWritable without the test of the table's capacity.
makeWritableUnbounded(secs, pr, addr, size) ==
    IF \E i \in 1..Len(secs) :
           addr >= secs[i].address /\ addr + size <= secs[i].address + secs[i].size
    THEN [ret |-> "true", secs |-> secs, prot |-> pr, os |-> 0]
    ELSE LET vp == VirtualProtect(pr, addr, size,
                                  getWritableProtection(VirtualQuery(pr, addr)))
         IN  IF ~vp.ok
             THEN [ret |-> "false", secs |-> secs, prot |-> pr, os |-> 2]
             ELSE [ret |-> "true",
                   secs |-> Append(secs, [address |-> addr, size |-> size,
                                          oldProtect |-> vp.old]),
                   prot |-> vp.prot, os |-> 2]

\* makeWritable(addr, size) on the tracking table secs and the protections pr.
\* ret is "true", "false", or "fatal" (fatalErrorEarly was called); os is the
\* number of calls made to VirtualQuery and VirtualProtect.
makeWritable(secs, pr, addr, size) ==
    IF \E i \in 1..Len(secs) :
           addr >= secs[i].address /\ addr + size <= secs[i].address + secs[i].size
    THEN [ret |-> "true", secs |-> secs, prot |-> pr, os |-> 0]
    ELSE IF Len(secs) >= kMaxModifiedSections
    THEN [ret |-> "fatal", secs |-> secs, prot |-> pr, os |-> 0]
    ELSE LET newProtect == getWritableProtection(VirtualQuery(pr, addr))
             vp == VirtualProtect(pr, addr, size, newProtect)
         IN  IF ~vp.ok
             THEN [ret |-> "false", secs |-> secs, prot |-> pr, os |-> 2]
             ELSE [ret |-> "true",
                   secs |-> Append(secs, [address |-> addr, size |-> size,
                                          oldProtect |-> vp.old]),
                   prot |-> vp.prot, os |-> 2]

\* restoreProtections(): for each record in order, VirtualProtect(address,
\* size, oldProtect).  Each page ends with the old protection of the last
\* record whose range holds it; the table is then emptied.
restoreProtections(secs, pr) ==
    LET Restores(i, p) ==
            /\ p \in PageOf(secs[i].address)..PageOf(secs[i].address + secs[i].size - 1)
            /\ VirtualProtect(pr, secs[i].address, secs[i].size, secs[i].oldProtect).ok
    IN  [p \in DOMAIN pr |->
            IF \E i \in DOMAIN secs : Restores(i, p)
            THEN secs[CHOOSE i \in DOMAIN secs :
                          /\ Restores(i, p)
                          /\ \A j \in (i + 1)..Len(secs) : ~Restores(j, p)].oldProtect
            ELSE pr[p]]

(***************************************************************************)
(* Relocation processing.                                                   *)
(***************************************************************************)
kRelocFlagSizeMask == 255

\* A read of word i of the table.  The table ends at
\* __RUNTIME_PSEUDO_RELOC_LIST_END__: a read at or past the end returns what
\* happens to lie behind the table, one of PastEnd(i).
JunkWords == {W(0), W(1), W(kRelocFlagSize32), W(Layout.dataA)}
PastEnd(i) == IF i <= Len(table) THEN {W(0)} ELSE JunkWords
ReadWord(i, junk) == IF i <= Len(table) THEN table[i] ELSE junk

\* The V2 entry / V1 entry that starts at word i of the table.
EntryV2(i) == [sym |-> table[i], target |-> table[i + 1], flags |-> table[i + 2]]
EntryV1(i) == [addend |-> table[i], target |-> table[i + 1]]

\* delta = *(base + sym) - (base + sym), a ptrdiff_t.
RelocDelta(m, a, base, r) ==
    LET symAddr == base + B2Nat(r.sym)
        actualAddr == Load(m, symAddr, PtrSize(a))
    IN  SubB(actualAddr, Nat2B(symAddr, PtrSize(a)))

\* int64_t newVal = static_cast<int64_t>(val) + delta, for an int32_t val.
NewVal32(val, delta) == AddB(SignExtend(val, 8), SignExtend(delta, 8))
\* newVal < INT32_MIN || newVal > INT32_MAX
OutOfInt32(newVal) == SignExtend(Truncate(newVal, 4), 8) # newVal

\* applyRelocV2(base, reloc) on memory m, tracking table secs, protections pr.
\* ret is "true", "false", or "fatal" (fatalErrorEarly(msg) was called).
applyRelocV2(m, secs, pr, a, base, r) ==
    LET delta == RelocDelta(m, a, base, r)
        targetAddr == base + B2Nat(r.target)
        size == BitAnd(B2Nat(r.flags), kRelocFlagSizeMask)
        mw == makeWritable(secs, pr, targetAddr, size \div 8)
        out(ret, m2, msg) ==
            [ret |-> ret, mem |-> m2, secs |-> mw.secs, prot |-> mw.prot, msg |-> msg,
             os |-> mw.os]
    IN  IF mw.ret = "fatal"
        THEN out("fatal", m, "Pseudo-reloc: too many modified sections (limit 64)")
        ELSE IF mw.ret = "false" THEN out("false", m, "")
        ELSE CASE size = kRelocFlagSize8 ->
                    out("true",
                        Store(m, targetAddr,
                              AddB(Load(m, targetAddr, 1), Truncate(delta, 1))), "")
               [] size = kRelocFlagSize16 ->
                    out("true",
                        Store(m, targetAddr,
                              AddB(Load(m, targetAddr, 2), Truncate(delta, 2))), "")
               [] size = kRelocFlagSize32 ->
                    LET newVal == NewVal32(Load(m, targetAddr, 4), delta)
                    IN  IF OutOfInt32(newVal)
                        THEN out("fatal", m,
                                 "Pseudo-reloc: 32-bit relocation overflow. Address delta exceeds INT32 range.")
                        ELSE out("true", Store(m, targetAddr, Truncate(newVal, 4)), "")
               [] size = kRelocFlagSize64 ->
                    out("true",
                        Store(m, targetAddr,
                              AddB(Load(m, targetAddr, 8), SignExtend(delta, 8))), "")
               [] OTHER -> out("false", m, "")

\* One iteration of the V1 loop of doPseudoReloc: a 32-bit add of addend.
applyRelocV1(m, secs, pr, base, r) ==
    LET targetAddr == base + B2Nat(r.target)
        mw == makeWritable(secs, pr, targetAddr, 4)
    IN  [ret |-> mw.ret,
         mem |-> IF mw.ret = "true"
                 THEN Store(m, targetAddr, AddB(Load(m, targetAddr, 4), r.addend))
                 ELSE m,
         secs |-> mw.secs, prot |-> mw.prot, os |-> mw.os,
         msg |-> IF mw.ret = "fatal"
                 THEN "Pseudo-reloc: too many modified sections (limit 64)" ELSE ""]

(***************************************************************************)
(* Threads.                                                                 *)
(***************************************************************************)
Top(t) == IF stack[t] = <<>> THEN "idle" ELSE Head(stack[t])
Goto(t, l) == stack' = [stack EXCEPT ![t] = <<l>> \o Tail(@)]
Return(t) == stack' = [stack EXCEPT ![t] = Tail(@)]
CallThen(t, callee, cont) == stack' = [stack EXCEPT ![t] = <<callee, cont>> \o Tail(@)]
\* A thread that is in no CRT function makes a new top-level call.
Enter(t, l) ==
    /\ proc = "running"
    /\ stack[t] = <<>>
    /\ calls[t] < MaxCalls
    /\ stack' = [stack EXCEPT ![t] = <<l>>]
    /\ calls' = [calls EXCEPT ![t] = @ + 1]

\* crt::fatalErrorEarly(msg): debug output, then __fastfail.
fatalErrorEarly(msg) ==
    /\ debugOut' = debugOut \o <<"FATAL: CRT initialization error: ", msg, "\n">>
    /\ proc' = "fastfail"
    /\ status' = FastFailStackCookieCheckFailure

\* InitOnceExecuteOnce(&guard, callback, ...): the first caller runs the
\* callback (at label cb, then done); a caller that finds the callback running
\* waits; a caller that finds it completed returns at once.
InitOnceExecuteOnce(t, g, cb, done) ==
    /\ initOnce[g] # "Pending"
    /\ IF initOnce[g] = "Uninit"
       THEN /\ initOnce' = [initOnce EXCEPT ![g] = "Pending"]
            /\ CallThen(t, cb, done)
       ELSE /\ UNCHANGED initOnce
            /\ Return(t)

\* The callback returned TRUE: the guard is complete, the caller returns.
InitOnceComplete(t, g) ==
    /\ initOnce' = [initOnce EXCEPT ![g] = "Done"]
    /\ Return(t)

VARIABLES
    __security_cookie,            \* volatile CookieType
    __security_cookie_complement, \* volatile CookieType
    cookieLocal,          \* per thread: the local `cookie` / the value last read
    sicDone,              \* history: completed calls of __security_init_cookie
    firstCookie,          \* history: __security_cookie when the first call completed
    fpState,              \* per thread: floating-point control state
    crtSlots,             \* the merged .CRT$X* sections: function pointers, 0 = null
    crtSyms,              \* slot index of __xc_a, __xc_z, __xi_a, __xi_z, ...; the
                          \* values of __cxa_finalize and _crt_enable_thread_notifications;
                          \* the image's entry point
    local,                \* per thread: arguments and locals of the entry point it is in
    fn,                   \* per thread: the section walker's pointer, range and result
    log                   \* history: what the startup code did, in order

cookieVars == <<__security_cookie, __security_cookie_complement, cookieLocal,
                sicDone, firstCookie>>
crtVars == <<fpState, crtSlots, crtSyms, local, fn, log>>
vars == <<driverVars, arch, proc, status, debugOut, stack, calls, initOnce, relocVars, cookieVars, crtVars>>

(***************************************************************************)
(* _pei386_runtime_relocator and the pass it guards.                        *)
(***************************************************************************)
\* A direct call of the exported _pei386_runtime_relocator.
CallRelocator(t) ==
    /\ Enter(t, "pei386")
    /\ UNCHANGED <<driverVars, arch, proc, status, debugOut, initOnce, relocVars, cookieVars, crtVars>>

\* Not the program: the relocator without its init-once guard.
RelocatorUnguarded(t) ==
    /\ proc = "running"
    /\ Top(t) = "pei386"
    /\ CallThen(t, "doPseudoReloc", "pei386_ret")
    /\ UNCHANGED <<driverVars, arch, proc, status, debugOut, calls, initOnce, relocVars, cookieVars, crtVars>>

_pei386_runtime_relocator(t) ==
    /\ proc = "running"
    /\ Top(t) = "pei386"
    /\ InitOnceExecuteOnce(t, "reloc", "doPseudoReloc", "pei386_ret")
    /\ UNCHANGED <<driverVars, arch, proc, status, debugOut, calls, relocVars, cookieVars, crtVars>>

\* Not the program: doPseudoReloc without the test for an empty table.
doPseudoRelocNoEmptyTest(t) ==
    /\ proc = "running"
    /\ Top(t) = "doPseudoReloc"
    /\ passes' = passes + 1
    /\ IF Len(table) >= 3 /\ table[1] = W(0) /\ table[2] = W(0)
       THEN IF table[3] # W(1)
            THEN Return(t) /\ UNCHANGED reloc
            ELSE Goto(t, "relocV2") /\ reloc' = [reloc EXCEPT ![t] = 4]
       ELSE Goto(t, "relocV1") /\ reloc' = [reloc EXCEPT ![t] = 1]
    /\ UNCHANGED <<driverVars, arch, proc, status, debugOut, calls, initOnce, table, mem, prot, vpFail,
                   g_modifiedSections, origProt, applied, osCalls, cookieVars, crtVars>>

\* Not the program: doPseudoReloc processing a table of any version.
doPseudoRelocAnyVersion(t) ==
    /\ proc = "running"
    /\ Top(t) = "doPseudoReloc"
    /\ passes' = passes + 1
    /\ IF Len(table) = 0
       THEN Return(t) /\ UNCHANGED reloc
       ELSE IF table[1] = W(0) /\ table[2] = W(0)
       THEN Goto(t, "relocV2") /\ reloc' = [reloc EXCEPT ![t] = 4]
       ELSE Goto(t, "relocV1") /\ reloc' = [reloc EXCEPT ![t] = 1]
    /\ UNCHANGED <<driverVars, arch, proc, status, debugOut, calls, initOnce, table, mem, prot, vpFail,
                   g_modifiedSections, origProt, applied, osCalls, cookieVars, crtVars>>

\* doPseudoReloc up to its first loop test: the empty table, the format.
doPseudoReloc(t) ==
    /\ proc = "running"
    /\ Top(t) = "doPseudoReloc"
    /\ passes' = passes + 1
    /\ IF Len(table) = 0
       THEN Return(t) /\ UNCHANGED reloc
       ELSE \E magic2 \in PastEnd(2), version \in PastEnd(3) :
              IF table[1] = W(0) /\ ReadWord(2, magic2) = W(0)
              THEN IF ReadWord(3, version) # W(1)
                   THEN Return(t) /\ UNCHANGED reloc
                   ELSE Goto(t, "relocV2") /\ reloc' = [reloc EXCEPT ![t] = 4]
              ELSE Goto(t, "relocV1") /\ reloc' = [reloc EXCEPT ![t] = 1]
    /\ UNCHANGED <<driverVars, arch, proc, status, debugOut, calls, initOnce, table, mem, prot, vpFail,
                   g_modifiedSections, origProt, applied, osCalls, cookieVars, crtVars>>

\* The effect of one loop iteration whose result is res.
RelocIteration(t, res, width) ==
    /\ prot' = res.prot
    /\ g_modifiedSections' = res.secs
    /\ mem' = res.mem
    /\ osCalls' = osCalls + res.os
    /\ IF res.ret = "fatal"
       THEN fatalErrorEarly(res.msg) /\ UNCHANGED <<reloc, applied>>
       ELSE /\ reloc' = [reloc EXCEPT ![t] = @ + width]
            /\ applied' = IF res.ret = "true" THEN Append(applied, reloc[t]) ELSE applied
            /\ UNCHANGED <<proc, status, debugOut>>
    /\ UNCHANGED <<driverVars, arch, stack, calls, initOnce, table, vpFail, origProt, passes,
                   cookieVars, crtVars>>

\* while (reloc < relocEnd) { applyRelocV2(base, reloc); ++reloc; }
doPseudoRelocV2(t) ==
    /\ proc = "running"
    /\ Top(t) = "relocV2"
    /\ reloc[t] <= Len(table)
    /\ \E target \in PastEnd(reloc[t] + 1), flags \in PastEnd(reloc[t] + 2) :
          RelocIteration(t, applyRelocV2(mem, g_modifiedSections, prot, arch, getImageBase,
                                         [sym |-> table[reloc[t]],
                                          target |-> ReadWord(reloc[t] + 1, target),
                                          flags |-> ReadWord(reloc[t] + 2, flags)]), 3)

\* while (reloc < relocEnd) { ... val += reloc->addend ...; ++reloc; }
doPseudoRelocV1(t) ==
    /\ proc = "running"
    /\ Top(t) = "relocV1"
    /\ reloc[t] <= Len(table)
    /\ \E target \in PastEnd(reloc[t] + 1) :
          RelocIteration(t, applyRelocV1(mem, g_modifiedSections, prot, getImageBase,
                                         [addend |-> table[reloc[t]],
                                          target |-> ReadWord(reloc[t] + 1, target)]), 2)

\* The loop has ended: restoreProtections(), and doPseudoReloc returns.
doPseudoRelocRestore(t) ==
    /\ proc = "running"
    /\ Top(t) \in {"relocV2", "relocV1"}
    /\ reloc[t] > Len(table)
    /\ prot' = restoreProtections(g_modifiedSections, prot)
    /\ g_modifiedSections' = <<>>
    /\ osCalls' = osCalls + Len(g_modifiedSections)
    /\ Return(t)
    /\ UNCHANGED <<driverVars, arch, proc, status, debugOut, calls, initOnce, table, mem, vpFail, reloc,
                   origProt, applied, passes, cookieVars, crtVars>>

\* pseudoRelocCallback returns TRUE.
pseudoRelocCallback(t) ==
    /\ proc = "running"
    /\ Top(t) = "pei386_ret"
    /\ InitOnceComplete(t, "reloc")
    /\ UNCHANGED <<driverVars, arch, proc, status, debugOut, calls, relocVars, cookieVars, crtVars>>

(***************************************************************************)
(* The security cookie (crt_windows_security.cpp).                          *)
(***************************************************************************)
\* crt::DefaultSecurityCookie: 0x00002B992DDFA232 (64-bit), 0xBB40E64E (32-bit).
DefaultSecurityCookie(a) ==
    IF a = "x64" THEN <<50, 162, 223, 45, 153, 43, 0, 0>> ELSE <<78, 230, 64, 187>>

GetCurrentProcessId == 8012
GetCurrentThreadId(t) == 4096 + 4 * t

\* 0x0000FFFFffffffff, 0xFFFF0000 and 0x4711.
CookieMask64 == <<255, 255, 255, 255, 255, 255, 0, 0>>
HighWord32 == <<0, 0, 255, 255>>
FallbackSeed == <<17, 71, 0, 0>>

\* Not the program: a test that never finds the cookie initialised.
NeverInitialized(a, c) == FALSE

\* __security_cookie != DefaultSecurityCookie [&& (cookie & 0xFFFF0000) != 0]
AlreadyInitialized(a, c) ==
    /\ c # DefaultSecurityCookie(a)
    /\ a = "x86" => AndB(c, HighWord32) # <<0, 0, 0, 0>>

\* The entropy __security_init_cookie gathers on thread t from the sample e:
\* system time, tick count, performance counter (8 bytes each) and the
\* address of the local variable; on 64-bit the top 16 bits are masked off.
GatherEntropy(a, t, e) ==
    LET w == PtrSize(a)
        is64 == a = "x64"
        tick == Truncate(e.tick, w)
        lowPart == SubSeq(e.perf, 1, 4)
        highPart == SubSeq(e.perf, 5, 8)
        c0 == IF is64 THEN e.systime
              ELSE XorB(SubSeq(e.systime, 1, 4), SubSeq(e.systime, 5, 8))
        c1 == XorB(XorB(c0, Nat2B(GetCurrentThreadId(t), w)), Nat2B(GetCurrentProcessId, w))
        c2 == IF is64 THEN XorB(c1, ShlBytes(tick, 7)) ELSE c1
        c3 == XorB(c2, tick)
        c4 == IF is64 THEN XorB(c3, XorB(ShlBytes(ZeroExtend(lowPart, 8), 4), e.perf))
              ELSE XorB(XorB(c3, lowPart), highPart)
        c5 == XorB(c4, Truncate(e.stack, w))
    IN  IF is64 THEN AndB(c5, CookieMask64) ELSE c5

\* Not the program: the gathered value stored as it is.
ValidCookieUnadjusted(a, c6) == c6

\* "Ensure cookie is valid": the adjustments made to the gathered value c6.
ValidCookie(a, c6) ==
    LET w == PtrSize(a)
        is64 == a = "x64"
        next == AddB(DefaultSecurityCookie(a), Nat2B(1, w))
    IN  IF c6 = DefaultSecurityCookie(a) THEN next
        ELSE IF is64 THEN (IF c6 = Nat2B(0, w) THEN next ELSE c6)
        ELSE IF AndB(c6, HighWord32) = <<0, 0, 0, 0>>
        THEN OrB(c6, ShlBytes(OrB(c6, FallbackSeed), 2))
        ELSE c6

NewCookie(a, t, e) == ValidCookie(a, GatherEntropy(a, t, e))

\* A direct call of the exported __security_init_cookie.
CallSecurityInitCookie(t) ==
    /\ Enter(t, "sic")
    /\ UNCHANGED <<driverVars, arch, proc, status, debugOut, initOnce, relocVars, cookieVars, crtVars>>

\* The completed call is counted; the first one's result is remembered.
SicReturn(t) ==
    /\ Return(t)
    /\ sicDone' = sicDone + 1
    /\ firstCookie' = IF sicDone = 0 THEN __security_cookie' ELSE firstCookie

\* The test at the top, and on the slow path the gathering of entropy into
\* the local `cookie`.
__security_init_cookie(t, samples) ==
    /\ proc = "running"
    /\ Top(t) = "sic"
    /\ IF AlreadyInitialized(arch, __security_cookie)
       THEN /\ Goto(t, "sic_fix")
            /\ cookieLocal' = [cookieLocal EXCEPT ![t] = <<>>]
       ELSE /\ Goto(t, "sic_store")
            /\ \E e \in samples :
                   cookieLocal' = [cookieLocal EXCEPT ![t] = NewCookie(arch, t, e)]
    /\ UNCHANGED <<driverVars, arch, proc, status, debugOut, calls, initOnce, relocVars, crtVars,
                   __security_cookie, __security_cookie_complement, sicDone, firstCookie>>

\* __security_cookie_complement = ~__security_cookie: the volatile read ...
sicFixRead(t) ==
    /\ proc = "running"
    /\ Top(t) = "sic_fix"
    /\ cookieLocal' = [cookieLocal EXCEPT ![t] = __security_cookie]
    /\ Goto(t, "sic_fix_store")
    /\ UNCHANGED <<driverVars, arch, proc, status, debugOut, calls, initOnce, relocVars, crtVars,
                   __security_cookie, __security_cookie_complement, sicDone, firstCookie>>

\* ... and the volatile write; return.
sicFixStore(t) ==
    /\ proc = "running"
    /\ Top(t) = "sic_fix_store"
    /\ __security_cookie_complement' = NotB(cookieLocal[t])
    /\ UNCHANGED __security_cookie
    /\ SicReturn(t)
    /\ UNCHANGED <<driverVars, arch, proc, status, debugOut, calls, initOnce, relocVars, crtVars, cookieLocal>>

\* __security_cookie = cookie;
sicStoreCookie(t) ==
    /\ proc = "running"
    /\ Top(t) = "sic_store"
    /\ __security_cookie' = cookieLocal[t]
    /\ Goto(t, "sic_store_complement")
    /\ UNCHANGED <<driverVars, arch, proc, status, debugOut, calls, initOnce, relocVars, crtVars,
                   __security_cookie_complement, cookieLocal, sicDone, firstCookie>>

\* __security_cookie_complement = ~cookie; return.
sicStoreComplement(t) ==
    /\ proc = "running"
    /\ Top(t) = "sic_store_complement"
    /\ __security_cookie_complement' = NotB(cookieLocal[t])
    /\ UNCHANGED __security_cookie
    /\ SicReturn(t)
    /\ UNCHANGED <<driverVars, arch, proc, status, debugOut, calls, initOnce, relocVars, crtVars, cookieLocal>>

\* A call of __security_check_cookie(v), as a /GS epilogue makes it.
CallCheckCookie(t, v) ==
    /\ Enter(t, "check")
    /\ cookieLocal' = [cookieLocal EXCEPT ![t] = v]
    /\ UNCHANGED <<driverVars, arch, proc, status, debugOut, initOnce, relocVars, crtVars,
                   __security_cookie, __security_cookie_complement, sicDone, firstCookie>>

\* __fastfail(FastFailStackCookieCheckFailure); never returns.
__report_gsfailure ==
    /\ proc' = "fastfail"
    /\ status' = FastFailStackCookieCheckFailure
    /\ UNCHANGED stack

\* Not the program: a check that returns whatever it was given.
CheckAlwaysReturns(t) ==
    /\ proc = "running"
    /\ Top(t) = "check"
    /\ Return(t)
    /\ UNCHANGED <<driverVars, arch, proc, status, debugOut, calls, initOnce, relocVars, cookieVars, crtVars>>

__security_check_cookie(t) ==
    /\ proc = "running"
    /\ Top(t) = "check"
    /\ IF cookieLocal[t] # __security_cookie
       THEN __report_gsfailure
       ELSE Return(t) /\ UNCHANGED <<proc, status>>
    /\ UNCHANGED <<driverVars, arch, debugOut, calls, initOnce, relocVars, cookieVars, crtVars>>

(***************************************************************************)
(* The section walkers (crt_windows_init.cpp).                              *)
(***************************************************************************)
Event(ev, step, slot, t) == [ev |-> ev, step |-> step, slot |-> slot, t |-> t]

\* The arguments and locals of an entry point before it is entered.
NoLocals ==
    [reason |-> 0, reserved |-> 0, code |-> 0, dso |-> "", result |-> 0, module |-> "self"]

\* What the function stored in a slot returns: the initializers 9 and above
\* report failure, 9 with the value 1, 10 with the value 2.
PifvResult(f) == IF f >= 9 THEN f - 8 ELSE 0

StartWalk(t, kind, first, last) ==
    fn' = [fn EXCEPT ![t] = [kind |-> kind, first |-> first, cur |-> first,
                             last |-> last, called |-> <<>>, ret |-> 0,
                             done |-> FALSE]]

\* Not the program: a walker that does not test the slot for null.
inittermNoNullTest(t) ==
    /\ proc = "running"
    /\ Top(t) = "initterm"
    /\ IF fn[t].cur < fn[t].last
       THEN /\ log' = Append(log, Event("invoke", "", fn[t].cur, t))
            /\ fn' = [fn EXCEPT ![t].called = Append(@, fn[t].cur), ![t].cur = @ + 1]
            /\ UNCHANGED stack
       ELSE /\ fn' = [fn EXCEPT ![t].done = TRUE]
            /\ Return(t)
            /\ UNCHANGED log
    /\ UNCHANGED <<driverVars, arch, proc, status, debugOut, calls, initOnce, relocVars, cookieVars,
                   fpState, crtSlots, crtSyms, local>>

\* for (fn = first; fn < last; ++fn) if (*fn) (*fn)();   -- one iteration, or
\* the end of the loop.
initterm(t) ==
    /\ proc = "running"
    /\ Top(t) = "initterm"
    /\ IF fn[t].cur < fn[t].last
       THEN /\ IF crtSlots[fn[t].cur] # 0
               THEN /\ log' = Append(log, Event("invoke", "", fn[t].cur, t))
                    /\ fn' = [fn EXCEPT ![t].called = Append(@, fn[t].cur),
                                        ![t].cur = @ + 1]
               ELSE /\ fn' = [fn EXCEPT ![t].cur = @ + 1]
                    /\ UNCHANGED log
            /\ UNCHANGED stack
       ELSE /\ fn' = [fn EXCEPT ![t].done = TRUE]
            /\ Return(t)
            /\ UNCHANGED log
    /\ UNCHANGED <<driverVars, arch, proc, status, debugOut, calls, initOnce, relocVars, cookieVars,
                   fpState, crtSlots, crtSyms, local>>

\* Not the program: a walk that goes on after a failure and returns the last
\* non-zero value.
inittermEKeepsGoing(t) ==
    /\ proc = "running"
    /\ Top(t) = "initterm_e"
    /\ IF fn[t].cur < fn[t].last
       THEN IF crtSlots[fn[t].cur] # 0
            THEN /\ log' = Append(log, Event("invoke_e", "", fn[t].cur, t))
                 /\ fn' = [fn EXCEPT ![t].called = Append(@, fn[t].cur),
                                     ![t].ret = IF PifvResult(crtSlots[fn[t].cur]) # 0
                                                THEN PifvResult(crtSlots[fn[t].cur])
                                                ELSE @,
                                     ![t].cur = @ + 1]
                 /\ UNCHANGED stack
            ELSE /\ fn' = [fn EXCEPT ![t].cur = @ + 1]
                 /\ UNCHANGED <<log, stack>>
       ELSE /\ fn' = [fn EXCEPT ![t].done = TRUE]
            /\ Return(t)
            /\ UNCHANGED log
    /\ UNCHANGED <<driverVars, arch, proc, status, debugOut, calls, initOnce, relocVars, cookieVars,
                   fpState, crtSlots, crtSyms, local>>

\* The same loop, stopping at the first initializer that returns non-zero.
initterm_e(t) ==
    /\ proc = "running"
    /\ Top(t) = "initterm_e"
    /\ IF fn[t].cur < fn[t].last
       THEN IF crtSlots[fn[t].cur] # 0
            THEN /\ log' = Append(log, Event("invoke_e", "", fn[t].cur, t))
                 /\ IF PifvResult(crtSlots[fn[t].cur]) # 0
                    THEN /\ fn' = [fn EXCEPT ![t].called = Append(@, fn[t].cur),
                                             ![t].ret = PifvResult(crtSlots[fn[t].cur]),
                                             ![t].done = TRUE]
                         /\ Return(t)
                    ELSE /\ fn' = [fn EXCEPT ![t].called = Append(@, fn[t].cur),
                                             ![t].cur = @ + 1]
                         /\ UNCHANGED stack
            ELSE /\ fn' = [fn EXCEPT ![t].cur = @ + 1]
                 /\ UNCHANGED <<log, stack>>
       ELSE /\ fn' = [fn EXCEPT ![t].done = TRUE]
            /\ Return(t)
            /\ UNCHANGED log
    /\ UNCHANGED <<driverVars, arch, proc, status, debugOut, calls, initOnce, relocVars, cookieVars,
                   fpState, crtSlots, crtSyms, local>>

\* The exported _initterm(first, last) and _initterm_e(first, last).
_initterm(t, first, last) ==
    /\ Enter(t, "initterm")
    /\ StartWalk(t, "initterm", first, last)
    /\ UNCHANGED <<driverVars, arch, proc, status, debugOut, initOnce, relocVars, cookieVars,
                   fpState, crtSlots, crtSyms, local, log>>

_initterm_e(t, first, last) ==
    /\ Enter(t, "initterm_e")
    /\ StartWalk(t, "initterm_e", first, last)
    /\ UNCHANGED <<driverVars, arch, proc, status, debugOut, initOnce, relocVars, cookieVars,
                   fpState, crtSlots, crtSyms, local, log>>

(***************************************************************************)
(* The guarded startup orchestrator (crt_windows_init.cpp).                 *)
(***************************************************************************)
\* crt::fatalError(errCode): _amsg_exit, which does not return.
fatalError(errCode) == proc' = "amsg_exit" /\ status' = errCode

\* Not the program: the cookie initialised before the relocations are applied.
commonInitCallbackCookieFirst ==
    <<"cb_securityInitCookie", "cb_runPseudoRelocator", "cb_fpreset",
      "cb_initterm_e", "cb_initterm", "cb_return">>

\* The statements of commonInitCallback, in program order.
commonInitCallbackBody ==
    <<"cb_runPseudoRelocator", "cb_securityInitCookie", "cb_fpreset",
      "cb_initterm_e", "cb_initterm", "cb_return">>

StepIndex(l) == CHOOSE k \in DOMAIN commonInitCallbackBody : commonInitCallbackBody[k] = l
StepAfter(l) == commonInitCallbackBody[StepIndex(l) + 1]

\* Control reaches statement l: the statement before it has ended, l begins.
BodyStep(t, l) ==
    /\ proc = "running"
    /\ Top(t) = l
    /\ log' = log
              \o (IF StepIndex(l) > 1
                  THEN <<Event("end", commonInitCallbackBody[StepIndex(l) - 1], 0, t)>>
                  ELSE <<>>)
              \o (IF l # "cb_return" THEN <<Event("begin", l, 0, t)>> ELSE <<>>)

\* A call of crt::commonInit(), as every entry point makes it.
CallCommonInit(t) ==
    /\ Enter(t, "commonInit")
    /\ UNCHANGED <<driverVars, arch, proc, status, debugOut, initOnce, relocVars, cookieVars, crtVars>>

\* Not the program: commonInit calling the callback without the guard.
commonInitUnguarded(t) ==
    /\ proc = "running"
    /\ Top(t) = "commonInit"
    /\ CallThen(t, commonInitCallbackBody[1], "commonInit_ret")
    /\ UNCHANGED <<driverVars, arch, proc, status, debugOut, calls, initOnce, relocVars, cookieVars, crtVars>>

commonInit(t) ==
    /\ proc = "running"
    /\ Top(t) = "commonInit"
    /\ InitOnceExecuteOnce(t, "common", commonInitCallbackBody[1], "commonInit_ret")
    /\ UNCHANGED <<driverVars, arch, proc, status, debugOut, calls, relocVars, cookieVars, crtVars>>

\* runPseudoRelocator();
cbRunPseudoRelocator(t) ==
    /\ BodyStep(t, "cb_runPseudoRelocator")
    /\ CallThen(t, "pei386", StepAfter("cb_runPseudoRelocator"))
    /\ UNCHANGED <<driverVars, arch, proc, status, debugOut, calls, initOnce, relocVars, cookieVars,
                   fpState, crtSlots, crtSyms, local, fn>>

\* securityInitCookie();
cbSecurityInitCookie(t) ==
    /\ BodyStep(t, "cb_securityInitCookie")
    /\ CallThen(t, "sic", StepAfter("cb_securityInitCookie"))
    /\ UNCHANGED <<driverVars, arch, proc, status, debugOut, calls, initOnce, relocVars, cookieVars,
                   fpState, crtSlots, crtSyms, local, fn>>

\* _fpreset();
cbFpreset(t) ==
    /\ BodyStep(t, "cb_fpreset")
    /\ fpState' = [fpState EXCEPT ![t] = "reset"]
    /\ Goto(t, StepAfter("cb_fpreset"))
    /\ UNCHANGED <<driverVars, arch, proc, status, debugOut, calls, initOnce, relocVars, cookieVars,
                   crtSlots, crtSyms, local, fn>>

\* initterm_e(__xi_a, __xi_z) ...
cbInittermE(t) ==
    /\ BodyStep(t, "cb_initterm_e")
    /\ StartWalk(t, "initterm_e", crtSyms.xi_a, crtSyms.xi_z)
    /\ CallThen(t, "initterm_e", "cb_initterm_e_check")
    /\ UNCHANGED <<driverVars, arch, proc, status, debugOut, calls, initOnce, relocVars, cookieVars,
                   fpState, crtSlots, crtSyms, local>>

\* Not the program: the result of the C initializers ignored.
cbInittermEUnchecked(t) ==
    /\ proc = "running"
    /\ Top(t) = "cb_initterm_e_check"
    /\ Goto(t, StepAfter("cb_initterm_e"))
    /\ UNCHANGED <<driverVars, arch, proc, status, debugOut, calls, initOnce, relocVars, cookieVars,
                   crtVars>>

\* ... if (... != 0) fatalError(RuntimeError::CrtInit);
cbInittermECheck(t) ==
    /\ proc = "running"
    /\ Top(t) = "cb_initterm_e_check"
    /\ IF fn[t].ret # 0
       THEN fatalError(CrtInit) /\ UNCHANGED stack
       ELSE Goto(t, StepAfter("cb_initterm_e")) /\ UNCHANGED <<proc, status>>
    /\ UNCHANGED <<driverVars, arch, debugOut, calls, initOnce, relocVars, cookieVars, crtVars>>

\* initterm(__xc_a, __xc_z);
cbInitterm(t) ==
    /\ BodyStep(t, "cb_initterm")
    /\ StartWalk(t, "initterm", crtSyms.xc_a, crtSyms.xc_z)
    /\ CallThen(t, "initterm", StepAfter("cb_initterm"))
    /\ UNCHANGED <<driverVars, arch, proc, status, debugOut, calls, initOnce, relocVars, cookieVars,
                   fpState, crtSlots, crtSyms, local>>

\* return TRUE;
cbReturn(t) ==
    /\ BodyStep(t, "cb_return")
    /\ Return(t)
    /\ UNCHANGED <<driverVars, arch, proc, status, debugOut, calls, initOnce, relocVars, cookieVars,
                   fpState, crtSlots, crtSyms, local, fn>>

\* InitOnceExecuteOnce completes the guard; commonInit returns.
commonInitReturn(t) ==
    /\ proc = "running"
    /\ Top(t) = "commonInit_ret"
    /\ InitOnceComplete(t, "common")
    /\ UNCHANGED <<driverVars, arch, proc, status, debugOut, calls, relocVars, cookieVars, crtVars>>

(***************************************************************************)
(* Process exit and module cleanup (crt_windows_init.cpp).                  *)
(***************************************************************************)
\* The statements control goes through next, in place of the current one.
Run(t, labels) == stack' = [stack EXCEPT ![t] = labels \o Tail(@)]

\* The section symbols as the code that thread t is executing sees them: each
\* module links its own copy of this runtime, whose __xp_a, ... name that
\* module's own .CRT section. The modelled module is "self"; a second module
\* of the process, when the image has one, is "dll".
ModuleSyms(t) == IF local[t].module = "dll" THEN crtSyms.dll ELSE crtSyms

\* CRT_CXA_FINALIZE_CALL(dso): if (__cxa_finalize) __cxa_finalize(dso);
CRT_CXA_FINALIZE_CALL(t) ==
    /\ proc = "running"
    /\ Top(t) = "CRT_CXA_FINALIZE_CALL"
    /\ log' = IF ModuleSyms(t).cxa_finalize # 0
              THEN Append(log, Event("__cxa_finalize", local[t].dso, 0, t))
              ELSE log
    /\ Return(t)
    /\ UNCHANGED <<driverVars, arch, proc, status, debugOut, calls, initOnce, relocVars, cookieVars,
                   fpState, crtSlots, crtSyms, local, fn>>

\* initterm(__xp_a, __xp_z);
runPreterminators(t) ==
    /\ proc = "running"
    /\ Top(t) = "runPreterminators"
    /\ log' = Append(log, Event("call", "runPreterminators", 0, t))
    /\ StartWalk(t, "initterm", ModuleSyms(t).xp_a, ModuleSyms(t).xp_z)
    /\ Goto(t, "initterm")
    /\ UNCHANGED <<driverVars, arch, proc, status, debugOut, calls, initOnce, relocVars, cookieVars,
                   fpState, crtSlots, crtSyms, local>>

\* initterm(__xt_a, __xt_z);
runTerminators(t) ==
    /\ proc = "running"
    /\ Top(t) = "runTerminators"
    /\ log' = Append(log, Event("call", "runTerminators", 0, t))
    /\ StartWalk(t, "initterm", ModuleSyms(t).xt_a, ModuleSyms(t).xt_z)
    /\ Goto(t, "initterm")
    /\ UNCHANGED <<driverVars, arch, proc, status, debugOut, calls, initOnce, relocVars, cookieVars,
                   fpState, crtSlots, crtSyms, local>>

\* Not the program: exit running the terminators before the pre-terminators.
exitTerminatorsFirst ==
    <<"CRT_CXA_FINALIZE_CALL", "runTerminators", "runPreterminators", "_exit">>

\* The statements of exit(code), in program order.
exitBody ==
    <<"CRT_CXA_FINALIZE_CALL", "runPreterminators", "runTerminators", "_exit">>

\* exit(code): CRT_CXA_FINALIZE_CALL(nullptr), then the rest of the body.
exit(t) ==
    /\ proc = "running"
    /\ Top(t) = "exit"
    /\ log' = Append(log, Event("call", "exit", local[t].code, t))
    /\ local' = [local EXCEPT ![t].dso = "nullptr"]
    /\ Run(t, exitBody)
    /\ UNCHANGED <<driverVars, arch, proc, status, debugOut, calls, initOnce, relocVars, cookieVars,
                   fpState, crtSlots, crtSyms, fn>>

\* The image holds a second module that uses this runtime: a DLL the loader
\* attached before the entry point of the executable ran.
HasLoadedDll == "dll" \in DOMAIN crtSyms

\* The host runtime's _exit(code) ends the process with that code through
\* ExitProcess: the loader first calls the entry point of every loaded DLL
\* with DLL_PROCESS_DETACH and a non-null lpvReserved.
_exit(t) ==
    /\ proc = "running"
    /\ Top(t) = "_exit"
    /\ IF HasLoadedDll
       THEN /\ log' = Append(log, Event("enter", "_DllMainCRTStartup", 0, t))
            /\ local' = [local EXCEPT ![t].reason = 0, ![t].reserved = 1,
                                      ![t].module = "dll"]
            /\ stack' = [stack EXCEPT ![t] = <<"_DllMainCRTStartup", "ExitProcess">> \o @]
            /\ UNCHANGED <<proc, status>>
       ELSE /\ proc' = "exited"
            /\ status' = local[t].code
            /\ UNCHANGED <<stack, local, log>>
    /\ UNCHANGED <<driverVars, arch, debugOut, calls, initOnce, relocVars, cookieVars,
                   fpState, crtSlots, crtSyms, fn>>

\* The detach notifications are over: the process ends.
ExitProcess(t) ==
    /\ proc = "running"
    /\ Top(t) = "ExitProcess"
    /\ proc' = "exited"
    /\ status' = local[t].code
    /\ UNCHANGED <<driverVars, arch, debugOut, stack, calls, initOnce, relocVars, cookieVars, crtVars>>

\* _cexit(): the same cleanup, then return to the caller.
_cexit(t) ==
    /\ proc = "running"
    /\ Top(t) = "_cexit"
    /\ log' = Append(log, Event("call", "_cexit", 0, t))
    /\ local' = [local EXCEPT ![t].dso = "nullptr"]
    /\ Run(t, <<"CRT_CXA_FINALIZE_CALL", "runPreterminators", "runTerminators">>)
    /\ UNCHANGED <<driverVars, arch, proc, status, debugOut, calls, initOnce, relocVars, cookieVars,
                   fpState, crtSlots, crtSyms, fn>>

(***************************************************************************)
(* Entry points (crt_windows.cpp) and _CRT_INIT (crt_windows_init.cpp).     *)
(***************************************************************************)
kDllProcessAttach == 1
kDllThreadAttach == 2
kDllThreadDetach == 3
kDllProcessDetach == 0

\* Exit codes main may return.
ExitCodes == {0, 3}

\* The executable entry points and the user function each one calls.
ExeEntries == {"mainCRTStartup", "wmainCRTStartup", "WinMainCRTStartup",
               "wWinMainCRTStartup"}
UserMains == {"main", "wmain", "WinMain", "wWinMain"}

\* The loader starts the process at its entry point.
StartProcess(t) ==
    /\ crtSyms.entry \in ExeEntries
    /\ Enter(t, crtSyms.entry)
    /\ UNCHANGED <<driverVars, arch, proc, status, debugOut, initOnce, relocVars, cookieVars, crtVars>>

\* Not the program: an entry point that calls the user's function without
\* the startup.
ExeStartupWithoutInit(t, entry, user) ==
    /\ proc = "running"
    /\ Top(t) = entry
    /\ Run(t, <<user>>)
    /\ UNCHANGED <<driverVars, arch, proc, status, debugOut, calls, initOnce, relocVars, cookieVars,
                   crtVars>>

\* What the four entry points share: [the argument and environment tables,
\* and for WinMain the instance, show command and command line, not
\* modelled;] commonInit(); exit(user(...));
ExeStartup(t, entry, user) ==
    /\ proc = "running"
    /\ Top(t) = entry
    /\ Run(t, <<"commonInit", user>>)
    /\ UNCHANGED <<driverVars, arch, proc, status, debugOut, calls, initOnce, relocVars, cookieVars,
                   crtVars>>

mainCRTStartup(t) == ExeStartup(t, "mainCRTStartup", "main")
wmainCRTStartup(t) == ExeStartup(t, "wmainCRTStartup", "wmain")
WinMainCRTStartup(t) == ExeStartup(t, "WinMainCRTStartup", "WinMain")
wWinMainCRTStartup(t) == ExeStartup(t, "wWinMainCRTStartup", "wWinMain")

\* The user's function runs and returns a code, which is passed to exit; its
\* event records the function and the code.
UserMain(t, user) ==
    /\ proc = "running"
    /\ Top(t) = user
    /\ \E code \in ExitCodes :
          /\ local' = [local EXCEPT ![t].code = code]
          /\ log' = Append(log, Event("main", user, code, t))
    /\ Goto(t, "exit")
    /\ UNCHANGED <<driverVars, arch, proc, status, debugOut, calls, initOnce, relocVars, cookieVars,
                   fpState, crtSlots, crtSyms, fn>>

main(t) == UserMain(t, "main")
wmain(t) == UserMain(t, "wmain")
WinMain(t) == UserMain(t, "WinMain")
wWinMain(t) == UserMain(t, "wWinMain")

\* The loader (or a custom entry point) calls a DLL entry function.
CallDllEntry(t, entry, reason, reserved) ==
    /\ Enter(t, entry)
    /\ log' = Append(log, Event("enter", entry, reason, t))
    /\ local' = [local EXCEPT ![t] = [NoLocals EXCEPT !.reason = reason,
                                                      !.reserved = reserved]]
    /\ UNCHANGED <<driverVars, arch, proc, status, debugOut, initOnce, relocVars, cookieVars,
                   fpState, crtSlots, crtSyms, fn>>

\* Not the program: cleanup on every process detach.
DetachCleanupAlways(t) == local[t].reason = kDllProcessDetach

\* fdwReason == kDllProcessDetach, and lpvReserved == nullptr.
DetachByFreeLibrary(t) ==
    local[t].reason = kDllProcessDetach /\ local[t].reserved = 0

\* Not the program: the user's DllMain called before the cleanup.
detachDllMainFirst ==
    <<"DllMain", "CRT_CXA_FINALIZE_CALL", "runPreterminators", "runTerminators">>

\* The statements of _DllMainCRTStartup for a detach by FreeLibrary, in
\* program order: the cleanup, then return DllMain(...).
detachBody ==
    <<"CRT_CXA_FINALIZE_CALL", "runPreterminators", "runTerminators", "DllMain">>

_DllMainCRTStartup(t) ==
    /\ proc = "running"
    /\ Top(t) = "_DllMainCRTStartup"
    /\ IF local[t].reason = kDllProcessAttach
       THEN Run(t, <<"commonInit", "DllMain_attach">>) /\ UNCHANGED local
       ELSE IF DetachByFreeLibrary(t)
       THEN /\ local' = [local EXCEPT ![t].dso = "__dso_handle"]
            /\ Run(t, detachBody)
       ELSE Goto(t, "DllMain") /\ UNCHANGED local
    /\ UNCHANGED <<driverVars, arch, proc, status, debugOut, calls, initOnce, relocVars, cookieVars,
                   fpState, crtSlots, crtSyms, fn, log>>

\* The reason DllMain is given, as its event records it.
ReasonName(reason) ==
    CASE reason = kDllProcessAttach -> "DLL_PROCESS_ATTACH"
      [] reason = kDllThreadAttach -> "DLL_THREAD_ATTACH"
      [] reason = kDllThreadDetach -> "DLL_THREAD_DETACH"
      [] reason = kDllProcessDetach -> "DLL_PROCESS_DETACH"

\* What the user's DllMain may return.
DllResults == {0, 5}

\* Not the program: thread notifications disabled whatever DllMain returned.
DllMainAttachAlwaysDisables(t) ==
    /\ proc = "running"
    /\ Top(t) = "DllMain_attach"
    /\ \E result \in DllResults :
          /\ local' = [local EXCEPT ![t].result = result]
          /\ log' = log \o <<Event("DllMain", ReasonName(local[t].reason), result, t),
                              Event("DisableThreadLibraryCalls", "", 0, t)>>
    /\ Return(t)
    /\ UNCHANGED <<driverVars, arch, proc, status, debugOut, calls, initOnce, relocVars, cookieVars,
                   fpState, crtSlots, crtSyms, fn>>

\* BOOL result = DllMain(...); if (result && !_crt_enable_thread_notifications)
\* DisableThreadLibraryCalls(hinstDLL); return result;
\* The event of DllMain records what it returned.
DllMainAttach(t) ==
    /\ proc = "running"
    /\ Top(t) = "DllMain_attach"
    /\ \E result \in DllResults :
          /\ local' = [local EXCEPT ![t].result = result]
          /\ log' = log \o <<Event("DllMain", ReasonName(local[t].reason), result, t)>>
                        \o (IF result # 0 /\ crtSyms.thread_notifications = 0
                            THEN <<Event("DisableThreadLibraryCalls", "", 0, t)>>
                            ELSE <<>>)
    /\ Return(t)
    /\ UNCHANGED <<driverVars, arch, proc, status, debugOut, calls, initOnce, relocVars, cookieVars,
                   fpState, crtSlots, crtSyms, fn>>

\* return DllMain(hinstDLL, fdwReason, lpvReserved);
DllMain(t) ==
    /\ proc = "running"
    /\ Top(t) = "DllMain"
    /\ \E result \in DllResults :
          /\ local' = [local EXCEPT ![t].result = result]
          /\ log' = Append(log, Event("DllMain", ReasonName(local[t].reason), result, t))
    /\ Return(t)
    /\ UNCHANGED <<driverVars, arch, proc, status, debugOut, calls, initOnce, relocVars, cookieVars,
                   fpState, crtSlots, crtSyms, fn>>

_CRT_INIT(t) ==
    /\ proc = "running"
    /\ Top(t) = "_CRT_INIT"
    /\ IF local[t].reason = kDllProcessAttach
       THEN Run(t, <<"sic", "crtInit_initterm_e">>) /\ UNCHANGED local
       ELSE IF DetachByFreeLibrary(t)
       THEN /\ local' = [local EXCEPT ![t].dso = "__dso_handle"]
            /\ Run(t, <<"CRT_CXA_FINALIZE_CALL", "runPreterminators", "runTerminators",
                        "crtInit_return">>)
       ELSE Goto(t, "crtInit_return") /\ UNCHANGED local
    /\ UNCHANGED <<driverVars, arch, proc, status, debugOut, calls, initOnce, relocVars, cookieVars,
                   fpState, crtSlots, crtSyms, fn, log>>

\* if (crt::initterm_e(__xi_a, __xi_z) != 0) ...
crtInitInittermE(t) ==
    /\ proc = "running"
    /\ Top(t) = "crtInit_initterm_e"
    /\ StartWalk(t, "initterm_e", crtSyms.xi_a, crtSyms.xi_z)
    /\ CallThen(t, "initterm_e", "crtInit_check")
    /\ UNCHANGED <<driverVars, arch, proc, status, debugOut, calls, initOnce, relocVars, cookieVars,
                   fpState, crtSlots, crtSyms, local, log>>

\* Not the program: _CRT_INIT going on to the constructors whatever the C
\* initializers returned.
crtInitCheckIgnoresResult(t) ==
    /\ proc = "running"
    /\ Top(t) = "crtInit_check"
    /\ StartWalk(t, "initterm", crtSyms.xc_a, crtSyms.xc_z)
    /\ CallThen(t, "initterm", "crtInit_return")
    /\ UNCHANGED <<driverVars, arch, proc, status, debugOut, calls, initOnce, relocVars, cookieVars,
                   fpState, crtSlots, crtSyms, local, log>>

\* ... return FALSE; otherwise crt::initterm(__xc_a, __xc_z);
crtInitCheck(t) ==
    /\ proc = "running"
    /\ Top(t) = "crtInit_check"
    /\ IF fn[t].ret # 0
       THEN /\ local' = [local EXCEPT ![t].result = 0]
            /\ Return(t)
            /\ UNCHANGED fn
       ELSE /\ StartWalk(t, "initterm", crtSyms.xc_a, crtSyms.xc_z)
            /\ CallThen(t, "initterm", "crtInit_return")
            /\ UNCHANGED local
    /\ UNCHANGED <<driverVars, arch, proc, status, debugOut, calls, initOnce, relocVars, cookieVars,
                   fpState, crtSlots, crtSyms, log>>

\* return TRUE;
crtInitReturn(t) ==
    /\ proc = "running"
    /\ Top(t) = "crtInit_return"
    /\ local' = [local EXCEPT ![t].result = 1]
    /\ Return(t)
    /\ UNCHANGED <<driverVars, arch, proc, status, debugOut, calls, initOnce, relocVars, cookieVars,
                   fpState, crtSlots, crtSyms, fn, log>>

(***************************************************************************)
(* Initial states.                                                          *)
(***************************************************************************)
SymAddr == getImageBase + Layout.iat

\* What the loader may have stored in the import slot: the address of the
\* imported variable, 64 bytes above the slot, 4096 bytes below it, or far
\* away (0x00007FFB12340000, 0x7F340000).
NearSymbol(a) == AddB(Nat2B(SymAddr, PtrSize(a)), Nat2B(64, PtrSize(a)))
FarSymbol(a) == IF a = "x64" THEN <<0, 0, 52, 18, 251, 127, 0, 0>> ELSE <<0, 0, 52, 127>>
SymPointers(a) ==
    {NearSymbol(a), SubB(Nat2B(SymAddr, PtrSize(a)), Nat2B(4096, PtrSize(a))), FarSymbol(a)}

\* What the linker may have left at a target: 0, 0x7FFFFFF0, -16, 0x80000010.
TargetValues ==
    {<<0, 0, 0, 0, 0, 0, 0, 0>>,
     <<240, 255, 255, 127, 0, 0, 0, 0>>,
     <<240, 255, 255, 255, 255, 255, 255, 255>>,
     <<16, 0, 0, 128, 0, 0, 0, 0>>}

MemImage(sv, tv) ==
    [addr \in MemAddrs |->
        IF addr \in SymAddr..(SymAddr + 7)
        THEN ZeroExtend(sv, 8)[addr - SymAddr + 1]
        ELSE LET slot == CHOOSE x \in SlotAddrs : addr \in x..(x + 7)
             IN  tv[addr - slot + 1]]

\* Section protections at load: .idata read-only, data pages dp, .text
\* execute-read.
LoadProtection(dp) ==
    [p \in ImagePages |->
        IF p = TextPage THEN kPageExecuteRead
        ELSE IF p = IatPage THEN kPageReadonly ELSE dp]

V2Entries ==
    {PseudoRelocV2(Layout.iat, Layout.dataA, kRelocFlagSize32),
     PseudoRelocV2(Layout.iat, Layout.dataA, kRelocFlagSize64),
     PseudoRelocV2(Layout.iat, Layout.dataB, kRelocFlagSize32),
     PseudoRelocV2(Layout.iat, Layout.dataS, kRelocFlagSize64),
     PseudoRelocV2(Layout.iat, Layout.text, kRelocFlagSize32)}
V1Entries ==
    {PseudoRelocV1(W(16), Layout.dataA), PseudoRelocV1(NegNat2B(16, 4), Layout.text)}

RelocTables ==
    {PseudoRelocHeader(1) \o es : es \in SeqsUpTo(V2Entries, MaxEntries)}
        \cup SeqsUpTo(V1Entries, MaxEntries)
        \cup {PseudoRelocHeader(2) \o PseudoRelocV2(Layout.iat, Layout.dataA, kRelocFlagSize32)}

InitControl ==
    /\ proc = "running"
    /\ status = 0
    /\ debugOut = <<>>
    /\ stack = [t \in Threads |-> <<>>]
    /\ calls = [t \in Threads |-> 0]
    /\ initOnce = [g \in {"common", "reloc"} |-> "Uninit"]
    /\ Args = <<>>
    /\ T = ""
    /\ CmdArgs = <<>>
    /\ cmdLine = <<>>
    /\ cmdPtr = 0
    /\ inQuotes = FALSE

InitImage(tables, symPointers, targetValues, dataProtections, failSets) ==
    /\ table \in tables
    /\ \E sv \in symPointers, tv \in targetValues : mem = MemImage(sv, tv)
    /\ \E dp \in dataProtections : prot = LoadProtection(dp)
    /\ vpFail \in failSets
    /\ origProt = prot
    /\ g_modifiedSections = <<>>
    /\ reloc = [t \in Threads |-> 0]
    /\ applied = <<>>
    /\ passes = 0
    /\ osCalls = 0

InitCookie(seeds) ==
    /\ __security_cookie \in {DefaultSecurityCookie(arch)} \cup seeds
    /\ __security_cookie_complement = NotB(DefaultSecurityCookie(arch))
    /\ cookieLocal = [t \in Threads |-> <<>>]
    /\ sicDone = 0
    /\ firstCookie = <<>>

\* The .CRT section as the linker merges it (alphabetically by suffix):
\* XCA, user XC*, XCZ, XIA, user XI*, XIZ, XPA, user XP*, XPZ, XTA, user XT*,
\* XTZ; each sentinel is one null slot.
CrtImage(xc, xi, xp, xt) ==
    LET xc_a == 1
        xc_z == xc_a + Len(xc) + 1
        xi_a == xc_z + 1
        xi_z == xi_a + Len(xi) + 1
        xp_a == xi_z + 1
        xp_z == xp_a + Len(xp) + 1
        xt_a == xp_z + 1
        xt_z == xt_a + Len(xt) + 1
    IN  [slots |-> <<0>> \o xc \o <<0, 0>> \o xi \o <<0, 0>> \o xp \o <<0, 0>> \o xt \o <<0>>,
         syms |-> [xc_a |-> xc_a, xc_z |-> xc_z, xi_a |-> xi_a, xi_z |-> xi_z,
                   xp_a |-> xp_a, xp_z |-> xp_z, xt_a |-> xt_a, xt_z |-> xt_z,
                   cxa_finalize |-> 1, thread_notifications |-> 0,
                   entry |-> "mainCRTStartup"]]

\* The same image linked without libc++abi: the weak __cxa_finalize is null.
WithoutCxaFinalize(im) == [im EXCEPT !.syms.cxa_finalize = 0]
\* The same image built as a DLL: its entry point is _DllMainCRTStartup.
AsDll(im) == [im EXCEPT !.syms.entry = "_DllMainCRTStartup"]
\* The same image linked with another entry point.
WithEntry(im, entry) == [im EXCEPT !.syms.entry = entry]
\* The same image in a process that has also loaded a DLL built with this
\* runtime, with pre-terminators xp and terminators xt: the .CRT section of
\* the DLL (XCA, XCZ, XIA, XIZ, XPA, user XP*, XPZ, XTA, user XT*, XTZ) lies
\* elsewhere in the address space, and the DLL's copy of the section symbols
\* names it.
WithLoadedDll(im, xp, xt) ==
    LET base == Len(im.slots)
        xp_a == base + 5
        xp_z == xp_a + Len(xp) + 1
        xt_a == xp_z + 1
        xt_z == xt_a + Len(xt) + 1
    IN  [slots |-> im.slots \o <<0, 0, 0, 0, 0>> \o xp \o <<0, 0>> \o xt \o <<0>>,
         syms |-> im.syms @@ [dll |-> [xc_a |-> base + 1, xc_z |-> base + 2,
                                       xi_a |-> base + 3, xi_z |-> base + 4,
                                       xp_a |-> xp_a, xp_z |-> xp_z,
                                       xt_a |-> xt_a, xt_z |-> xt_z,
                                       cxa_finalize |-> im.syms.cxa_finalize,
                                       thread_notifications |-> 0]]]
\* The same image with _crt_enable_thread_notifications overridden to 1.
WithThreadNotifications(im) == [im EXCEPT !.syms.thread_notifications = 1]


NoWalk == [kind |-> "none", first |-> 0, cur |-> 0, last |-> 0, called |-> <<>>,
           ret |-> 0, done |-> FALSE]

InitCrt(images) ==
    /\ \E im \in images : crtSlots = im.slots /\ crtSyms = im.syms
    /\ fpState = [t \in Threads |-> "inherited"]
    /\ fn = [t \in Threads |-> NoWalk]
    /\ local = [t \in Threads |-> NoLocals]
    /\ log = <<>>

(***************************************************************************)
(* SpecReloc: one thread calls the relocator, for every table, memory       *)
(* image, section protection and set of pages the OS refuses to change.     *)
(***************************************************************************)
InitReloc ==
    /\ arch \in Archs
    /\ InitControl
    /\ InitImage(RelocTables, SymPointers(arch), TargetValues,
                 {kPageReadonly, kPageReadwrite}, {{}, {TextPage}})
    /\ InitCookie({})
    /\ InitCrt({CrtImage(<<>>, <<>>, <<>>, <<>>)})

NextReloc ==
    \E t \in {1} :
        \/ CallRelocator(t)
        \/ _pei386_runtime_relocator(t)
        \/ doPseudoReloc(t)
        \/ doPseudoRelocV2(t)
        \/ doPseudoRelocV1(t)
        \/ doPseudoRelocRestore(t)
        \/ pseudoRelocCallback(t)

SpecReloc == InitReloc /\ [][NextReloc]_vars

(***************************************************************************)
(* Claims about the relocation pass (SpecReloc).                            *)
(***************************************************************************)
\* Thread t is about to process the V2 entry at reloc[t].
Size(r) == BitAnd(B2Nat(r.flags), kRelocFlagSizeMask)
TargetAddr(r) == getImageBase + B2Nat(r.target)
DeltaOf(r) == RelocDelta(mem, arch, getImageBase, r)
\* The sum of the sign-extended 32-bit target value and delta leaves int32.
Overflows32(r) == OutOfInt32(NewVal32(Load(mem, TargetAddr(r), 4), DeltaOf(r)))
\* A 64-bit add that does not wrap.
InRange64(r) ==
    LET v == Load(mem, TargetAddr(r), 8)
        d == SignExtend(DeltaOf(r), 8)
    IN  (IsNegB(v) = IsNegB(d)) => (IsNegB(AddB(v, d)) = IsNegB(v))

\* C3: once a relocation pass has returned, every page has exactly the
\* protection flags it had before the pass began, for every table (the
\* tracking capacity is never exceeded by the tables of this model).
C3_ProtectionRestored == (initOnce["reloc"] = "Done") => (prot = origProt)

\* C4: for a V2 (version 1) table, every entry of size class 32 or 64 whose
\* result is in range leaves the value at base+target equal to its previous
\* value plus delta, delta = *(base+sym) - (base+sym).
C4_Pre(r) ==
    \/ Size(r) = kRelocFlagSize32 /\ ~Overflows32(r)
    \/ Size(r) = kRelocFlagSize64 /\ InRange64(r)
C4_Post(r) ==
    LET w == Size(r) \div 8
    IN  Load(mem', TargetAddr(r), w) =
            AddB(Load(mem, TargetAddr(r), w), Truncate(SignExtend(DeltaOf(r), 8), w))
C4_V2AddsDelta ==
    [][\A t \in Threads :
          (doPseudoRelocV2(t) /\ C4_Pre(EntryV2(reloc[t]))) => C4_Post(EntryV2(reloc[t]))]_vars

\* C5: a 32-bit V2 entry whose sum leaves [INT32_MIN, INT32_MAX] terminates
\* the process by fast-fail at once: the target is not written, no later
\* entry is applied, and nothing runs afterwards.
C5_OverflowIsFatal ==
    /\ [][\A t \in Threads :
            (/\ doPseudoRelocV2(t)
             /\ Size(EntryV2(reloc[t])) = kRelocFlagSize32
             /\ Overflows32(EntryV2(reloc[t])))
            => (proc' = "fastfail" /\ mem' = mem /\ applied' = applied)]_vars
    /\ [][proc = "fastfail" => UNCHANGED vars]_vars

(***************************************************************************)
(* The clocks and counters __security_init_cookie may read.                 *)
(***************************************************************************)
EntropyA ==
    [systime |-> <<21, 205, 91, 7, 160, 49, 219, 1>>,
     tick |-> <<64, 226, 1, 0, 0, 0, 0, 0>>,
     perf |-> <<177, 104, 222, 58, 2, 0, 0, 0>>,
     stack |-> <<200, 249, 207, 229, 75, 0, 0, 0>>]

\* The sample that differs from e in the system time only and from which
\* thread t gathers exactly the value target.
SampleFor(a, t, e, target) ==
    LET zero == [e EXCEPT !.systime = Nat2B(0, 8)]
    IN  [e EXCEPT !.systime = ZeroExtend(XorB(GatherEntropy(a, t, zero), target), 8)]

\* Samples that take thread 1 through each branch of the validation: an
\* ordinary value, the default cookie, zero, and 0x00001234.
EntropySamples(a) ==
    {EntropyA,
     SampleFor(a, 1, EntropyA, DefaultSecurityCookie(a)),
     SampleFor(a, 1, EntropyA, Nat2B(0, PtrSize(a))),
     SampleFor(a, 1, EntropyA, Nat2B(4660, PtrSize(a)))}

\* Cookies the OS loader may have stored before the CRT runs: an ordinary
\* one, and one whose upper 16 bits (of the low 32) are zero.
LoaderSeed(a) == IF a = "x64" THEN <<17, 34, 51, 68, 85, 102, 0, 0>> ELSE <<17, 34, 51, 68>>
LoaderSeedLow(a) == Nat2B(4660, PtrSize(a))

(***************************************************************************)
(* Startup: threads call commonInit and _pei386_runtime_relocator.          *)
(***************************************************************************)
StartupTables ==
    {<<>>,
     PseudoRelocHeader(1) \o PseudoRelocV2(Layout.iat, Layout.dataA, kRelocFlagSize32),
     PseudoRelocV1(W(16), Layout.dataB),
     PseudoRelocHeader(2) \o PseudoRelocV2(Layout.iat, Layout.dataA, kRelocFlagSize32)}

StartupImages ==
    {CrtImage(<<2, 0, 3>>, <<1>>, <<>>, <<>>),
     CrtImage(<<2>>, <<0, 1, 9>>, <<>>, <<>>)}

InitStartup ==
    /\ arch \in Archs
    /\ InitControl
    /\ InitImage(StartupTables, {FarSymbol(arch), NearSymbol(arch)}, {Nat2B(0, 8)},
                 {kPageReadonly}, {{}})
    /\ InitCookie({LoaderSeed(arch)})
    /\ InitCrt(StartupImages)

NextStartup ==
    \E t \in Threads :
        \/ CallCommonInit(t)
        \/ commonInit(t)
        \/ cbRunPseudoRelocator(t)
        \/ cbSecurityInitCookie(t)
        \/ cbFpreset(t)
        \/ cbInittermE(t)
        \/ cbInittermECheck(t)
        \/ cbInitterm(t)
        \/ cbReturn(t)
        \/ commonInitReturn(t)
        \/ _pei386_runtime_relocator(t)
        \/ doPseudoReloc(t)
        \/ doPseudoRelocV2(t)
        \/ doPseudoRelocV1(t)
        \/ doPseudoRelocRestore(t)
        \/ pseudoRelocCallback(t)
        \/ __security_init_cookie(t, {EntropyA})
        \/ sicFixRead(t)
        \/ sicFixStore(t)
        \/ sicStoreCookie(t)
        \/ sicStoreComplement(t)
        \/ initterm(t)
        \/ initterm_e(t)

SpecStartup == InitStartup /\ [][NextStartup]_vars

(***************************************************************************)
(* The same, with direct calls of _pei386_runtime_relocator as well.        *)
(***************************************************************************)
InitRelocOnce ==
    /\ arch \in Archs
    /\ InitControl
    /\ InitImage({PseudoRelocHeader(1)
                      \o PseudoRelocV2(Layout.iat, Layout.dataA, kRelocFlagSize32),
                  PseudoRelocV1(W(16), Layout.dataB)},
                 {NearSymbol(arch)}, {Nat2B(0, 8)}, {kPageReadonly}, {{}})
    /\ InitCookie({LoaderSeed(arch)})
    /\ InitCrt({CrtImage(<<>>, <<1>>, <<>>, <<>>)})

NextRelocOnce ==
    \E t \in Threads :
        \/ CallCommonInit(t)
        \/ CallRelocator(t)
        \/ commonInit(t)
        \/ cbRunPseudoRelocator(t)
        \/ cbSecurityInitCookie(t)
        \/ cbFpreset(t)
        \/ cbInittermE(t)
        \/ cbInittermECheck(t)
        \/ cbInitterm(t)
        \/ cbReturn(t)
        \/ commonInitReturn(t)
        \/ _pei386_runtime_relocator(t)
        \/ doPseudoReloc(t)
        \/ doPseudoRelocV2(t)
        \/ doPseudoRelocV1(t)
        \/ doPseudoRelocRestore(t)
        \/ pseudoRelocCallback(t)
        \/ __security_init_cookie(t, {EntropyA})
        \/ sicFixRead(t)
        \/ sicFixStore(t)
        \/ sicStoreCookie(t)
        \/ sicStoreComplement(t)
        \/ initterm(t)
        \/ initterm_e(t)

SpecRelocOnce == InitRelocOnce /\ [][NextRelocOnce]_vars

(***************************************************************************)
(* Claims about the guarded startup (SpecStartup, SpecRelocOnce).           *)
(***************************************************************************)
\* How many times the startup body was entered; whether its last statement
\* has ended.
BodyRuns ==
    Cardinality({i \in DOMAIN log :
                    log[i].ev = "begin" /\ log[i].step = commonInitCallbackBody[1]})
BodyCompleted == \E i \in DOMAIN log : log[i].ev = "end" /\ log[i].step = "cb_initterm"
\* This step is thread t returning from a call of commonInit.
CommonInitReturns(t) ==
    Top(t) \in {"commonInit", "commonInit_ret"} /\ stack'[t] = Tail(stack[t])

\* C1: with any number of threads calling commonInit, the startup body is
\* entered at most once, a call of commonInit returns only when that one
\* execution has run to its end and the guard is complete, and the guard
\* never goes back to the uninitialised state.
C1_StartupOnce ==
    /\ [](BodyRuns <= 1)
    /\ [][\A t \in Threads :
            CommonInitReturns(t)
            => (BodyRuns' = 1 /\ BodyCompleted' /\ initOnce'["common"] = "Done")]_vars
    /\ [][initOnce["common"] # "Uninit" => initOnce'["common"] # "Uninit"]_vars

\* Every thread has called commonInit and has returned from it.
C1_Witness ==
    /\ \A t \in Threads : calls[t] >= 1 /\ stack[t] = <<>>
    /\ initOnce["common"] = "Done"
    /\ BodyRuns = 1

\* The position of an event in the order the startup body must keep.
Rank(e) ==
    CASE e.ev = "begin" /\ e.step = "cb_runPseudoRelocator" -> 1
      [] e.ev = "end" /\ e.step = "cb_runPseudoRelocator" -> 2
      [] e.ev = "begin" /\ e.step = "cb_securityInitCookie" -> 3
      [] e.ev = "end" /\ e.step = "cb_securityInitCookie" -> 4
      [] e.ev = "begin" /\ e.step = "cb_fpreset" -> 5
      [] e.ev = "end" /\ e.step = "cb_fpreset" -> 6
      [] e.ev = "begin" /\ e.step = "cb_initterm_e" -> 7
      [] e.ev = "invoke_e" -> 8
      [] e.ev = "end" /\ e.step = "cb_initterm_e" -> 9
      [] e.ev = "begin" /\ e.step = "cb_initterm" -> 10
      [] e.ev = "invoke" -> 11
      [] e.ev = "end" /\ e.step = "cb_initterm" -> 12
      [] OTHER -> 0
\* The ranks that may come next after rank r: the next one; after an
\* invocation, another of the same walk; after the beginning of a walk, its
\* end (nothing to invoke).
MayFollow(r) ==
    {r + 1} \cup (IF r \in {8, 11} THEN {r} ELSE {}) \cup (IF r \in {7, 10} THEN {r + 2} ELSE {})
Reached(r) == \E i \in DOMAIN log : Rank(log[i]) >= r

\* C2: the events of the startup body come in the order relocation, cookie,
\* floating-point reset, C initializers, C++ constructors, each step ending
\* before the next begins; when the cookie step begins the relocation pass
\* is complete, when an initializer or constructor is invoked the cookie
\* has been initialised and the floating-point state reset, and the
\* initializers invoked are those of .CRT$XI*, the constructors those of
\* .CRT$XC*.
C2_StepsInOrder ==
    /\ \A i \in DOMAIN log : Rank(log[i]) # 0
    /\ log # <<>> => Rank(log[1]) = 1
    /\ \A i \in DOMAIN log : i > 1 => Rank(log[i]) \in MayFollow(Rank(log[i - 1]))
    /\ Reached(3) => initOnce["reloc"] = "Done"
    /\ Reached(5) => sicDone >= 1
    /\ Reached(7) => \E t \in Threads : fpState[t] = "reset"
    /\ \A i \in DOMAIN log :
          /\ log[i].ev = "invoke_e" => log[i].slot \in crtSyms.xi_a..(crtSyms.xi_z - 1)
          /\ log[i].ev = "invoke" => log[i].slot \in crtSyms.xc_a..(crtSyms.xc_z - 1)

\* The body has run to its end and has invoked an initializer and a
\* constructor.
C2_Witness ==
    /\ BodyCompleted
    /\ \E i, j \in DOMAIN log : log[i].ev = "invoke_e" /\ log[j].ev = "invoke"

\* This step is thread t returning from _pei386_runtime_relocator.
RelocatorReturns(t) ==
    Top(t) \in {"pei386", "pei386_ret"} /\ stack'[t] = Tail(stack[t])
\* Every target holds its load-time value, zero, plus its delta or addend once.
TargetsRelocatedOnce ==
    IF table[1] = W(0) /\ table[2] = W(0)
    THEN Load(mem, TargetAddr(EntryV2(4)), 4) = Truncate(DeltaOf(EntryV2(4)), 4)
    ELSE Load(mem, TargetAddr(EntryV1(1)), 4) = EntryV1(1).addend

\* C6: however many calls of _pei386_runtime_relocator and runPseudoRelocator
\* threads make, doPseudoReloc is entered at most once, no entry is applied
\* twice, a call returns only when that one pass is complete, and then each
\* target holds its original value plus the delta or addend exactly once.
C6_RelocatedOnce ==
    /\ [](passes <= 1)
    /\ [](\A i, j \in DOMAIN applied : i # j => applied[i] # applied[j])
    /\ [](initOnce["reloc"] = "Done" => (passes = 1 /\ TargetsRelocatedOnce))
    /\ [][\A t \in Threads : RelocatorReturns(t) => initOnce'["reloc"] = "Done"]_vars

\* Direct calls and the startup body have both asked for relocation, and
\* all have returned.
C6_Witness ==
    /\ initOnce["common"] = "Done"
    /\ \E t \in Threads : calls[t] >= 2 /\ stack[t] = <<>>
    /\ \A t \in Threads : stack[t] = <<>>
    /\ applied # <<>>

(***************************************************************************)
(* The cookie under concurrent callers (SpecCookie) and under one caller    *)
(* (SpecCookieSeq): direct calls of __security_init_cookie, and /GS checks. *)
(***************************************************************************)
InitCookieSpec ==
    /\ arch \in Archs
    /\ InitControl
    /\ InitImage({<<>>}, {NearSymbol(arch)}, {Nat2B(0, 8)}, {kPageReadonly}, {{}})
    /\ InitCookie({LoaderSeed(arch), LoaderSeedLow(arch)})
    /\ InitCrt({CrtImage(<<>>, <<>>, <<>>, <<>>)})

\* The values a /GS epilogue may pass: the cookie as it is now, or a stack
\* slot that was overwritten.
CheckValues == {__security_cookie, NotB(__security_cookie)}

NextCookie ==
    \E t \in Threads :
        \/ CallSecurityInitCookie(t)
        \/ __security_init_cookie(t, {EntropyA})
        \/ sicFixRead(t)
        \/ sicFixStore(t)
        \/ sicStoreCookie(t)
        \/ sicStoreComplement(t)
        \/ \E v \in CheckValues : CallCheckCookie(t, v)
        \/ __security_check_cookie(t)

SpecCookie == InitCookieSpec /\ [][NextCookie]_vars

NextCookieSeq ==
    \E t \in {1} :
        \/ CallSecurityInitCookie(t)
        \/ __security_init_cookie(t, EntropySamples(arch))
        \/ sicFixRead(t)
        \/ sicFixStore(t)
        \/ sicStoreCookie(t)
        \/ sicStoreComplement(t)
        \/ \E v \in CheckValues : CallCheckCookie(t, v)
        \/ __security_check_cookie(t)

SpecCookieSeq == InitCookieSpec /\ [][NextCookieSeq]_vars

\* C7: once a call of __security_init_cookie has completed, the complement
\* is the bitwise NOT of the cookie in every state.
C7_ComplementInvariant ==
    sicDone >= 1 => __security_cookie_complement = NotB(__security_cookie)

\* C8: with calls made one after another, the cookie keeps, through every
\* later call, the value it had when the first call completed.
C8_CookieStable == sicDone >= 1 => __security_cookie = firstCookie

\* A repeat call has completed.
C8_Witness == sicDone >= 2 /\ __security_cookie = firstCookie

\* C9: a check returns only if its argument equals the cookie, and then
\* nothing but the caller's position changes; a check whose argument
\* differs ends the process by fast-fail, after which nothing runs.
C9_CheckCookie ==
    /\ [][\A t \in Threads :
            (Top(t) = "check" /\ stack'[t] # stack[t])
            => /\ cookieLocal[t] = __security_cookie
               /\ UNCHANGED <<driverVars, arch, proc, status, debugOut, initOnce, relocVars, cookieVars,
                              crtVars>>]_vars
    /\ [][\A t \in Threads :
            (__security_check_cookie(t) /\ cookieLocal[t] # __security_cookie)
            => (proc' = "fastfail" /\ stack' = stack)]_vars
    /\ [][proc = "fastfail" => UNCHANGED vars]_vars

\* A check with a wrong value has ended the process after the cookie was
\* initialised.
C9_Witness ==
    /\ proc = "fastfail"
    /\ sicDone >= 1
    /\ \E t \in Threads : Top(t) = "check" /\ cookieLocal[t] # __security_cookie

(***************************************************************************)
(* The walkers called through their exports (SpecInitterm).                 *)
(***************************************************************************)
MaxSlot == 8

InittermImages ==
    {CrtImage(<<2, 0, 3>>, <<1>>, <<>>, <<4>>),
     CrtImage(<<>>, <<9, 0, 1>>, <<>>, <<>>),
     CrtImage(<<>>, <<1, 10, 0, 9>>, <<>>, <<>>)}

InitInitterm ==
    /\ arch \in Archs
    /\ InitControl
    /\ InitImage({<<>>}, {NearSymbol(arch)}, {Nat2B(0, 8)}, {kPageReadonly}, {{}})
    /\ InitCookie({})
    /\ InitCrt(InittermImages)

NextInitterm ==
    \E t \in {1} :
        \/ \E first, last \in 1..MaxSlot : calls[t] = 0 /\ _initterm(t, first, last)
        \/ \E first, last \in 1..MaxSlot : calls[t] = 0 /\ _initterm_e(t, first, last)
        \/ initterm(t)
        \/ initterm_e(t)

SpecInitterm == InitInitterm /\ [][NextInitterm]_vars

\* The slots first, first+1, ..., last-1 that hold a function, ascending.
SlotsFrom(first, n) == [i \in 1..n |-> first + i - 1]
IsSet(i) == crtSlots[i] # 0
NonNullSlots(first, last) ==
    IF first >= last THEN <<>> ELSE SelectSeq(SlotsFrom(first, last - first), IsSet)

\* C10: at every point of a walk by initterm the slots invoked so far are
\* exactly the non-null slots between first and the loop pointer, in
\* ascending order, each once; when the walk has returned they are the
\* non-null slots of [first, last), and none if first >= last.
C10_InittermWalk ==
    \A t \in Threads :
        fn[t].kind = "initterm"
        => /\ fn[t].called = NonNullSlots(fn[t].first, fn[t].cur)
           /\ fn[t].done => /\ fn[t].called = NonNullSlots(fn[t].first, fn[t].last)
                            /\ fn[t].first >= fn[t].last => fn[t].called = <<>>
           /\ fn[t].done <=> Top(t) # "initterm"

\* A walk over a range with two functions and a null slot has returned.
C10_Witness ==
    \E t \in Threads :
        /\ fn[t].kind = "initterm"
        /\ fn[t].done
        /\ Len(fn[t].called) >= 2
        /\ \E i \in fn[t].first..(fn[t].last - 1) : crtSlots[i] = 0

(***************************************************************************)
(* SpecEntry: the loader starts an executable at mainCRTStartup, or calls   *)
(* the entry functions of a DLL with every reason.                          *)
(***************************************************************************)
\* Tables doPseudoReloc leaves at once: the empty one, and one with a version
\* 2 header.
SkippedTables ==
    {<<>>,
     PseudoRelocHeader(2) \o PseudoRelocV2(Layout.iat, Layout.dataA, kRelocFlagSize32)}

\* An image with a pre-terminator and a terminator and initializers that
\* succeed, the same without libc++abi, and one whose first C initializer
\* fails; each as an executable and as a DLL.
EntryImages ==
    LET good == CrtImage(<<2>>, <<1>>, <<4, 0, 6>>, <<5>>)
        bad == CrtImage(<<2>>, <<9, 1>>, <<4>>, <<5>>)
        exes == {good, WithoutCxaFinalize(good), bad}
    IN  exes \cup {AsDll(im) : im \in exes} \cup {WithThreadNotifications(AsDll(good))}

DllReasons == {kDllProcessAttach, kDllThreadAttach, kDllThreadDetach, kDllProcessDetach}

InitEntry ==
    /\ arch \in Archs
    /\ InitControl
    /\ InitImage(SkippedTables, {NearSymbol(arch)}, {Nat2B(0, 8)}, {kPageReadonly}, {{}})
    /\ InitCookie({})
    /\ InitCrt(EntryImages)

NextEntry ==
    \E t \in {1} :
        \/ crtSyms.entry = "mainCRTStartup" /\ StartProcess(t)
        \/ /\ crtSyms.entry = "_DllMainCRTStartup"
           /\ \E e \in {"_DllMainCRTStartup", "_CRT_INIT"}, reason \in DllReasons,
                 reserved \in {0, 1} : CallDllEntry(t, e, reason, reserved)
        \/ mainCRTStartup(t)
        \/ main(t)
        \/ exit(t)
        \/ _exit(t)
        \/ CRT_CXA_FINALIZE_CALL(t)
        \/ runPreterminators(t)
        \/ runTerminators(t)
        \/ _DllMainCRTStartup(t)
        \/ DllMainAttach(t)
        \/ DllMain(t)
        \/ _CRT_INIT(t)
        \/ crtInitInittermE(t)
        \/ crtInitCheck(t)
        \/ crtInitReturn(t)
        \/ commonInit(t)
        \/ cbRunPseudoRelocator(t)
        \/ cbSecurityInitCookie(t)
        \/ cbFpreset(t)
        \/ cbInittermE(t)
        \/ cbInittermECheck(t)
        \/ cbInitterm(t)
        \/ cbReturn(t)
        \/ commonInitReturn(t)
        \/ _pei386_runtime_relocator(t)
        \/ doPseudoReloc(t)
        \/ pseudoRelocCallback(t)
        \/ __security_init_cookie(t, {EntropyA})
        \/ sicFixRead(t)
        \/ sicFixStore(t)
        \/ sicStoreCookie(t)
        \/ sicStoreComplement(t)
        \/ initterm(t)
        \/ initterm_e(t)

SpecEntry == InitEntry /\ [][NextEntry]_vars

\* Event i is a C initializer invoked by the guarded startup body / an
\* initializer that returned non-zero.
GuardedInvoke(i) ==
    /\ log[i].ev = "invoke_e"
    /\ \E j \in 1..(i - 1) :
          /\ log[j].ev = "begin" /\ log[j].step = "cb_initterm_e"
          /\ \A k \in (j + 1)..i : log[k].ev = "invoke_e"
FailedInvoke(i) == log[i].ev = "invoke_e" /\ PifvResult(crtSlots[log[i].slot]) # 0

\* C11: once a C initializer invoked by the guarded startup body has returned
\* non-zero, nothing more is invoked - no C initializer, no C++ constructor,
\* no main, no DllMain - and the process either is about to test the result
\* or has been ended by _amsg_exit with the code RuntimeError::CrtInit.
C11_InitializerFailureIsFatal ==
    \A i \in DOMAIN log :
        (GuardedInvoke(i) /\ FailedInvoke(i))
        => /\ i = Len(log)
           /\ \/ proc = "amsg_exit" /\ status = CrtInit
              \/ proc = "running" /\ Top(log[i].t) = "cb_initterm_e_check"

\* The process was ended by _amsg_exit after the first of two C initializers
\* failed, in an executable.
C11_Witness ==
    /\ proc = "amsg_exit"
    /\ crtSyms.entry = "mainCRTStartup"
    /\ \E i \in DOMAIN log :
          /\ GuardedInvoke(i) /\ FailedInvoke(i)
          /\ crtSlots[log[i].slot + 1] # 0
          /\ log[i].slot + 1 < crtSyms.xi_z

\* What thread t has logged; the part of a history after its last "enter" /
\* its first call of exit.
ThreadLog(t) == SelectSeq(log, LAMBDA e : e.t = t)
IsPrefix(s, u) == Len(s) <= Len(u) /\ s = SubSeq(u, 1, Len(s))
LastIndex(s, P(_)) ==
    IF \E i \in DOMAIN s : P(s[i]) THEN CHOOSE i \in DOMAIN s :
                                            P(s[i]) /\ \A j \in (i + 1)..Len(s) : ~P(s[j])
    ELSE 0
FirstIndex(s, P(_)) ==
    IF \E i \in DOMAIN s : P(s[i]) THEN CHOOSE i \in DOMAIN s :
                                            P(s[i]) /\ \A j \in 1..(i - 1) : ~P(s[j])
    ELSE 0
After(s, k) == SubSeq(s, k + 1, Len(s))
CurrentCall(t) ==
    After(ThreadLog(t), LastIndex(ThreadLog(t), LAMBDA e : e.ev = "enter"))

\* The events of a complete cleanup by thread t: finalization for dso (if
\* __cxa_finalize is linked), the pre-terminators, the terminators.
Invocations(t, slots) == [i \in DOMAIN slots |-> Event("invoke", "", slots[i], t)]
CleanupOf(t, dso) ==
    (IF crtSyms.cxa_finalize # 0 THEN <<Event("__cxa_finalize", dso, 0, t)>> ELSE <<>>)
    \o <<Event("call", "runPreterminators", 0, t)>>
    \o Invocations(t, NonNullSlots(crtSyms.xp_a, crtSyms.xp_z))
    \o <<Event("call", "runTerminators", 0, t)>>
    \o Invocations(t, NonNullSlots(crtSyms.xt_a, crtSyms.xt_z))
IsCleanupEvent(e) ==
    \/ e.ev = "__cxa_finalize"
    \/ e.ev = "call" /\ e.step \in {"runPreterminators", "runTerminators"}
    \/ e.ev = "invoke" /\ e.slot \in crtSyms.xp_a..crtSyms.xt_z

\* C12: in a call of _DllMainCRTStartup or _CRT_INIT the cleanup events are,
\* when the reason is process detach and the reserved argument is null, the
\* finalization with __dso_handle, the pre-terminators and the terminators
\* (all of them once the call has returned); for every other reason, and for
\* process detach with a non-null reserved argument, there are none.
C12_ModuleCleanupOnFreeLibrary ==
    \A t \in Threads :
        (crtSyms.entry = "_DllMainCRTStartup" /\ calls[t] >= 1)
        => LET cleanup == SelectSeq(CurrentCall(t), IsCleanupEvent)
           IN  IF local[t].reason = kDllProcessDetach /\ local[t].reserved = 0
               THEN /\ IsPrefix(cleanup, CleanupOf(t, "__dso_handle"))
                    /\ stack[t] = <<>> => cleanup = CleanupOf(t, "__dso_handle")
               ELSE cleanup = <<>>

\* A call of _CRT_INIT for process detach with a null reserved argument has
\* returned, after one of _DllMainCRTStartup, in a DLL with two
\* pre-terminators.
C12_Witness ==
    \E t \in Threads :
        /\ stack[t] = <<>>
        /\ local[t].reason = kDllProcessDetach /\ local[t].reserved = 0
        /\ \E i, j \in DOMAIN log :
              /\ i < j
              /\ log[i].ev = "enter" /\ log[i].step = "_DllMainCRTStartup"
              /\ log[j].ev = "enter" /\ log[j].step = "_CRT_INIT"
        /\ Len(NonNullSlots(crtSyms.xp_a, crtSyms.xp_z)) = 2
        /\ Len(SelectSeq(CurrentCall(t), IsCleanupEvent)) = 6

\* The history of thread t after its call of exit.
IsExitCall(e) == e.ev = "call" /\ e.step = "exit"
ExitCalled(t) == \E i \in DOMAIN log : IsExitCall(log[i]) /\ log[i].t = t
SinceExit(t) == After(ThreadLog(t), FirstIndex(ThreadLog(t), IsExitCall))

\* C13: after a call of exit(code) the thread does, in this order and
\* nothing else, the finalization for all modules (if __cxa_finalize is
\* linked), the pre-terminators, the terminators; the process then ends in
\* _exit with that code; the frame of exit is never left.
C13_ExitOrder ==
    \A t \in Threads :
        ExitCalled(t)
        => LET code == ThreadLog(t)[FirstIndex(ThreadLog(t), IsExitCall)].slot
           IN  /\ IsPrefix(SinceExit(t), CleanupOf(t, "nullptr"))
               /\ stack[t] # <<>> /\ stack[t][Len(stack[t])] = "_exit"
               /\ proc \in {"running", "exited"}
               /\ proc = "exited" => /\ SinceExit(t) = CleanupOf(t, "nullptr")
                                     /\ status = code
                                     /\ Top(t) = "_exit"
               /\ Top(t) = "_exit" => SinceExit(t) = CleanupOf(t, "nullptr")

\* The process has ended in _exit(3) after a cleanup with finalization, two
\* pre-terminators and a terminator.
C13_Witness ==
    /\ proc = "exited"
    /\ status = 3
    /\ \E t \in Threads : ExitCalled(t) /\ Len(SinceExit(t)) = 6

(***************************************************************************)
(* SpecCapacity: tables whose entries need 63, 64 and 65 records of         *)
(* g_modifiedSections.                                                      *)
(***************************************************************************)
\* Ranges of which none lies inside an earlier one: every 1-byte, then every
\* 2-byte, then every 4-byte range of the four data and code slots.
RangeTargets == <<Layout.dataA, Layout.dataB, Layout.dataS, Layout.text>>
RangeSeq(bytes) ==
    [i \in 1..(Len(RangeTargets) * (9 - bytes)) |->
        [target |-> RangeTargets[((i - 1) \div (9 - bytes)) + 1] + ((i - 1) % (9 - bytes)),
         flags |-> 8 * bytes]]
DistinctRanges == RangeSeq(1) \o RangeSeq(2) \o RangeSeq(4)

\* The V2 table that relocates the first n of them against the import slot.
CapacityTable(n) ==
    PseudoRelocHeader(1)
    \o [w \in 1..(3 * n) |->
           LET e == DistinctRanges[((w - 1) \div 3) + 1]
           IN  CASE (w - 1) % 3 = 0 -> W(Layout.iat)
                 [] (w - 1) % 3 = 1 -> W(e.target)
                 [] OTHER -> W(e.flags)]

InitCapacity ==
    /\ arch \in Archs
    /\ InitControl
    /\ InitImage({CapacityTable(n) :
                     n \in (kMaxModifiedSections - 1)..(kMaxModifiedSections + 1)},
                 {NearSymbol(arch)}, {Nat2B(0, 8)}, {kPageReadonly, kPageReadwrite}, {{}})
    /\ InitCookie({})
    /\ InitCrt({CrtImage(<<>>, <<>>, <<>>, <<>>)})

NextCapacity ==
    \E t \in {1} :
        \/ CallRelocator(t)
        \/ _pei386_runtime_relocator(t)
        \/ doPseudoReloc(t)
        \/ doPseudoRelocV2(t)
        \/ doPseudoRelocRestore(t)
        \/ pseudoRelocCallback(t)

SpecCapacity == InitCapacity /\ [][NextCapacity]_vars

\* Thread t is about to process a table entry; the range of that entry.
AtEntry(t) == Top(t) \in {"relocV2", "relocV1"} /\ reloc[t] <= Len(table)
EntryAddr(t) ==
    getImageBase + B2Nat(IF Top(t) = "relocV2" THEN EntryV2(reloc[t]).target
                         ELSE EntryV1(reloc[t]).target)
EntrySize(t) ==
    IF Top(t) = "relocV2"
    THEN BitAnd(B2Nat(EntryV2(reloc[t]).flags), kRelocFlagSizeMask) \div 8
    ELSE 4
Tracked(addr, size) ==
    \E i \in DOMAIN g_modifiedSections :
        /\ addr >= g_modifiedSections[i].address
        /\ addr + size <= g_modifiedSections[i].address + g_modifiedSections[i].size
ChangedPages == {p \in DOMAIN prot : prot'[p] # prot[p]}

\* C14: never more than 64 records are in use; an entry that needs a record
\* when 64 are in use ends the process by __fastfail after the debug message,
\* without a query or change of protection and without a write; and a step
\* of the pass that changes a page's protection appends the record of the
\* range that holds the page, with the protection it had.
C14_CapacityIsFatal ==
    /\ [](Len(g_modifiedSections) <= kMaxModifiedSections)
    /\ [][\A t \in Threads :
            (/\ proc = "running"
             /\ AtEntry(t)
             /\ Len(g_modifiedSections) = kMaxModifiedSections
             /\ ~Tracked(EntryAddr(t), EntrySize(t)))
            => /\ proc' = "fastfail"
               /\ debugOut' = debugOut \o <<"FATAL: CRT initialization error: ",
                                            "Pseudo-reloc: too many modified sections (limit 64)",
                                            "\n">>
               /\ UNCHANGED <<prot, osCalls, mem, g_modifiedSections>>]_vars
    /\ [][\A t \in Threads :
            (AtEntry(t) /\ ChangedPages # {})
            => /\ Len(g_modifiedSections') = Len(g_modifiedSections) + 1
               /\ LET rec == g_modifiedSections'[Len(g_modifiedSections')]
                  IN  /\ rec.address = EntryAddr(t) /\ rec.size = EntrySize(t)
                      /\ rec.oldProtect = prot[PageOf(rec.address)]
                      /\ ChangedPages \subseteq
                            PageOf(rec.address)..PageOf(rec.address + rec.size - 1)]_vars

\* The process was ended by the 65th range, with 64 records in use.
C14_Witness ==
    /\ proc = "fastfail"
    /\ Len(g_modifiedSections) = kMaxModifiedSections
    /\ Len(debugOut) = 3
    /\ debugOut[2] = "Pseudo-reloc: too many modified sections (limit 64)"
    /\ \E t \in Threads : AtEntry(t) /\ reloc[t] = 4 + 3 * kMaxModifiedSections

(***************************************************************************)
(* Claims about the tables doPseudoReloc leaves unprocessed.                *)
(***************************************************************************)
\* This step is thread t leaving doPseudoReloc at its first statements, back
\* in its caller.
ReturnsAtOnce(t) ==
    Top(t) = "doPseudoReloc" /\ stack'[t] # stack[t]
    => stack'[t] = Tail(stack[t]) /\ proc' = "running"

\* C15: with an empty table (the list's start at its end; the table is the
\* words between the two symbols, so the start is never beyond the end) no
\* step writes memory, queries or changes a protection or uses a record of
\* the modified-section table, and doPseudoReloc returns to its caller from
\* its first statement.
C15_EmptyTable ==
    /\ [](table = <<>> => g_modifiedSections = <<>> /\ osCalls = 0 /\ applied = <<>>
                          /\ prot = origProt /\ proc = "running")
    /\ [][table = <<>> => UNCHANGED <<mem, prot>>]_vars
    /\ [][table = <<>> => \A t \in Threads : ReturnsAtOnce(t)]_vars

\* The relocator has run on an empty table and has returned.
C15_Witness ==
    /\ table = <<>>
    /\ passes = 1
    /\ initOnce["reloc"] = "Done"
    /\ \A t \in {1} : stack[t] = <<>> /\ calls[t] >= 1

\* The table starts with two zero words and a version other than 1.
UnknownVersion == Len(table) >= 3 /\ table[1] = W(0) /\ table[2] = W(0) /\ table[3] # W(1)
IsBegin(e, step) == e.ev = "begin" /\ e.step = step
IsEnd(e, step) == e.ev = "end" /\ e.step = step

\* C16: with a table of unknown version no step writes memory, queries or
\* changes a protection or uses a record, doPseudoReloc returns to its caller
\* from its first statements with the process running, and the thread that
\* began the relocation step of the startup body is in the relocator, or at
\* the cookie step, or has ended the relocation step and begun the cookie
\* step immediately after.
C16_UnknownVersionSkipped ==
    /\ [](UnknownVersion => g_modifiedSections = <<>> /\ osCalls = 0 /\ applied = <<>>
                            /\ prot = origProt /\ proc # "fastfail")
    /\ [][UnknownVersion => UNCHANGED <<mem, prot>>]_vars
    /\ [][UnknownVersion => \A t \in Threads : ReturnsAtOnce(t)]_vars
    /\ [](UnknownVersion
          => \A i \in DOMAIN log :
                IsBegin(log[i], "cb_runPseudoRelocator")
                => \/ /\ proc = "running"
                      /\ Top(log[i].t) \in {"pei386", "doPseudoReloc", "pei386_ret",
                                            "cb_securityInitCookie"}
                      /\ i = Len(log)
                   \/ /\ Len(log) >= i + 2
                      /\ IsEnd(log[i + 1], "cb_runPseudoRelocator")
                      /\ IsBegin(log[i + 2], "cb_securityInitCookie"))

\* Startup has initialised the cookie after a table of version 2 was skipped.
C16_Witness ==
    /\ UnknownVersion
    /\ passes = 1
    /\ sicDone >= 1
    /\ \E i \in DOMAIN log : IsEnd(log[i], "cb_securityInitCookie")

(***************************************************************************)
(* Claims about the entries of a pass (SpecReloc, SpecStartupFail).         *)
(***************************************************************************)
\* The table has no header: it is not empty and its first two words are not
\* both zero.
Headerless == Len(table) >= 2 /\ ~(table[1] = W(0) /\ table[2] = W(0))

\* C17: a headerless table is processed as V1 entries, and every step of the
\* V1 loop leaves memory as it was except for the 32-bit value at
\* base+target, which becomes its old value plus addend modulo 2^32.
C17_V1AddsAddend ==
    /\ [][\A t \in Threads :
            (Headerless /\ Top(t) = "doPseudoReloc" /\ stack'[t] # stack[t])
            => (Top(t)' = "relocV1" /\ reloc'[t] = 1)]_vars
    /\ [][\A t \in Threads :
            (doPseudoRelocV1(t) /\ proc' = "running")
            => LET r == EntryV1(reloc[t])
               IN  mem' = Store(mem, TargetAddr(r),
                                AddB(Load(mem, TargetAddr(r), 4), r.addend))]_vars

\* The pages of a range; the pages the records of this pass have made
\* writable.
PagesOf(addr, size) == PageOf(addr)..PageOf(addr + size - 1)
PagesMadeWritable ==
    UNION {PagesOf(g_modifiedSections[i].address, g_modifiedSections[i].size) :
              i \in DOMAIN g_modifiedSections}

\* C18: an entry whose target lies in pages that earlier entries of the pass
\* have made writable causes no call of VirtualQuery or VirtualProtect and
\* uses no further record.
C18_WritablePageNotRequeried ==
    [][\A t \in Threads :
          (/\ AtEntry(t)
           /\ reloc'[t] # reloc[t]
           /\ EntrySize(t) > 0
           /\ PagesOf(EntryAddr(t), EntrySize(t)) \subseteq PagesMadeWritable)
          => (osCalls' = osCalls /\ g_modifiedSections' = g_modifiedSections)]_vars

(***************************************************************************)
(* SpecStartupFail: the guarded startup, when the OS refuses to change the  *)
(* protection of the page the relocation targets lie in.                    *)
(***************************************************************************)
InitStartupFail ==
    /\ arch \in Archs
    /\ InitControl
    /\ InitImage({PseudoRelocHeader(1)
                      \o PseudoRelocV2(Layout.iat, Layout.dataA, kRelocFlagSize32),
                  PseudoRelocV1(W(16), Layout.dataB)},
                 {FarSymbol(arch), NearSymbol(arch)}, {Nat2B(0, 8)}, {kPageReadonly},
                 {{PageOf(getImageBase + Layout.dataA)}})
    /\ InitCookie({LoaderSeed(arch)})
    /\ InitCrt(StartupImages)

SpecStartupFail == InitStartupFail /\ [][NextStartup]_vars

\* The word indices of the entries of the table.
EntryIndices ==
    IF Headerless THEN {i \in 1..Len(table) : i % 2 = 1}
    ELSE IF Len(table) >= 3 /\ table[3] = W(1) THEN {i \in 4..Len(table) : i % 3 = 1}
    ELSE {}
AllApplied == \A i \in EntryIndices : \E k \in DOMAIN applied : applied[k] = i

\* C19: an entry for whose target the protection change fails ends the
\* process, and the cookie step of the startup body begins only when every
\* entry of the table has been applied.
C19_ProtectFailureAborts ==
    /\ [][\A t \in Threads :
            (/\ AtEntry(t)
             /\ stack'[t] # stack[t] \/ reloc'[t] # reloc[t]
             /\ ~Tracked(EntryAddr(t), EntrySize(t))
             /\ PagesOf(EntryAddr(t), EntrySize(t)) \cap vpFail # {})
            => proc' # "running"]_vars
    /\ [](Reached(3) => AllApplied)

(***************************************************************************)
(* Claims about writes of the cookie (SpecCookie).                          *)
(***************************************************************************)
\* C20: __security_cookie is written at most once: a step changes it only
\* when it does not hold an initialised value, and no step stores to it
\* after a first store.
C20_CookieWrittenOnce ==
    /\ [][AlreadyInitialized(arch, __security_cookie)
            => __security_cookie' = __security_cookie]_vars
    /\ [][\A t \in Threads :
            (sicStoreCookie(t) /\ AlreadyInitialized(arch, __security_cookie))
            => FALSE]_vars

(***************************************************************************)
(* The fresh cookie over the edge values of the entropy.                    *)
(***************************************************************************)
\* Values the gathering may produce that lie on or next to a branch of the
\* validation: the default cookie and its neighbours, zero, values whose
\* high 16 bits (of the low 32) are zero, the low word of the 32-bit default,
\* the smallest value with a high word, and all ones.
EdgeTargets(a) ==
    LET w == PtrSize(a)
        one == Nat2B(1, w)
    IN  {DefaultSecurityCookie(a),
         AddB(DefaultSecurityCookie(a), one),
         SubB(DefaultSecurityCookie(a), one),
         Nat2B(0, w), one, Nat2B(4660, w), Nat2B(58958, w), Nat2B(65535, w),
         Nat2B(65536, w),
         IF a = "x64" THEN CookieMask64 ELSE NotB(Nat2B(0, w))}

\* Samples from which thread 1 gathers each edge value, and samples whose
\* system time has every bit set or only the top 16 bits set.
EdgeSamples(a) ==
    {SampleFor(a, 1, EntropyA, v) : v \in EdgeTargets(a)}
    \cup {[EntropyA EXCEPT !.systime = NotB(Nat2B(0, 8))],
          [SampleFor(a, 1, EntropyA, Nat2B(0, PtrSize(a)))
               EXCEPT !.systime = OrB(@, <<0, 0, 0, 0, 0, 0, 255, 255>>)]}

NextCookieFresh ==
    \E t \in {1} :
        \/ CallSecurityInitCookie(t)
        \/ __security_init_cookie(t, EdgeSamples(arch))
        \/ sicFixRead(t)
        \/ sicFixStore(t)
        \/ sicStoreCookie(t)
        \/ sicStoreComplement(t)

SpecCookieFresh == InitCookieSpec /\ [][NextCookieFresh]_vars

\* The requirements on a stored cookie c.
NonZero(c) == \E k \in DOMAIN c : c[k] # 0
WellFormedCookie(a, c) ==
    /\ c # DefaultSecurityCookie(a)
    /\ NonZero(c)
    /\ IF a = "x64" THEN SubSeq(c, 7, 8) = <<0, 0>> ELSE SubSeq(c, 3, 4) # <<0, 0>>

\* C21: when __security_init_cookie finds the default cookie on entry and
\* stores a freshly computed one, the stored value differs from the default
\* cookie and from zero, whatever the entropy was; on 64-bit its top 16 bits
\* are clear, on 32-bit its high 16 bits are not zero.
C21_FreshCookieWellFormed ==
    [][\A t \in Threads :
            (/\ Top(t) = "sic_store"
             /\ __security_cookie = DefaultSecurityCookie(arch)
             /\ stack'[t] # stack[t])
            => WellFormedCookie(arch, __security_cookie')]_vars

\* The default cookie was found, the entropy collided with it, and the
\* successor of the default has been stored.
C21_Witness ==
    /\ arch = "x64"
    /\ Top(1) = "sic_store_complement"
    /\ __security_cookie = AddB(DefaultSecurityCookie(arch), Nat2B(1, 8))
    /\ cookieLocal[1] = __security_cookie

Range(s) == {s[i] : i \in DOMAIN s}

\* The "enter" event of thread t's current call; events of a kind in a
\* history.
CurrentEntry(t) ==
    ThreadLog(t)[LastIndex(ThreadLog(t), LAMBDA e : e.ev = "enter")]
EventsOf(s, ev) == SelectSeq(s, LAMBDA e : e.ev = ev)
InCall(t, entry, reason) ==
    /\ \E e \in Range(ThreadLog(t)) : e.ev = "enter"
    /\ CurrentEntry(t).step = entry
    /\ CurrentEntry(t).slot = reason

\* The guarded startup body has run to its end before event i of the log.
StartupCompleteBefore(i) ==
    \E j \in 1..(i - 1) : log[j].ev = "end" /\ log[j].step = "cb_initterm"

\* C22: in a call of _DllMainCRTStartup for process attach, DllMain is
\* called at most once, and only after the guarded startup has completed;
\* DisableThreadLibraryCalls is called exactly when DllMain returned non-zero
\* and _crt_enable_thread_notifications is 0; when the call has returned,
\* DllMain was called once and its result is the result of the call.
C22_DllAttach ==
    \A t \in Threads :
        InCall(t, "_DllMainCRTStartup", kDllProcessAttach)
        => LET dm == EventsOf(CurrentCall(t), "DllMain")
               dis == EventsOf(CurrentCall(t), "DisableThreadLibraryCalls")
           IN  /\ Len(dm) <= 1
               /\ Len(dm) = 1
                  => /\ initOnce["common"] = "Done"
                     /\ \A i \in DOMAIN log :
                           (/\ log[i].ev = "DllMain" /\ log[i].t = t
                            /\ \A j \in (i + 1)..Len(log) :
                                  ~(log[j].ev = "enter" /\ log[j].t = t))
                           => StartupCompleteBefore(i)
               /\ Len(dis) = IF /\ Len(dm) = 1
                                /\ dm[1].slot # 0
                                /\ crtSyms.thread_notifications = 0
                             THEN 1 ELSE 0
               /\ stack[t] = <<>> => Len(dm) = 1 /\ local[t].result = dm[1].slot

\* A process attach has returned the non-zero result of DllMain, with the
\* thread notifications disabled, and the startup ran in that call.
C22_Witness ==
    \E t \in Threads :
        /\ InCall(t, "_DllMainCRTStartup", kDllProcessAttach)
        /\ stack[t] = <<>>
        /\ local[t].result = 5
        /\ Len(EventsOf(CurrentCall(t), "DisableThreadLibraryCalls")) = 1
        /\ Len(EventsOf(CurrentCall(t), "end")) >= 1

(***************************************************************************)
(* SpecExe: the loader starts an executable at each of its entry points.    *)
(***************************************************************************)
\* Images whose initializers succeed and one whose C initializer fails, each
\* linked with every executable entry point.
ExeImages ==
    {WithEntry(im, e) : im \in {CrtImage(<<2>>, <<1>>, <<4>>, <<5>>),
                                CrtImage(<<>>, <<9>>, <<>>, <<>>)},
                        e \in ExeEntries}

InitExe ==
    /\ arch \in Archs
    /\ InitControl
    /\ InitImage(SkippedTables, {NearSymbol(arch)}, {Nat2B(0, 8)}, {kPageReadonly}, {{}})
    /\ InitCookie({LoaderSeed(arch)})
    /\ InitCrt(ExeImages)

NextExe ==
    \E t \in {1} :
        \/ StartProcess(t)
        \/ mainCRTStartup(t)
        \/ wmainCRTStartup(t)
        \/ WinMainCRTStartup(t)
        \/ wWinMainCRTStartup(t)
        \/ main(t)
        \/ wmain(t)
        \/ WinMain(t)
        \/ wWinMain(t)
        \/ exit(t)
        \/ _exit(t)
        \/ CRT_CXA_FINALIZE_CALL(t)
        \/ runPreterminators(t)
        \/ runTerminators(t)
        \/ commonInit(t)
        \/ cbRunPseudoRelocator(t)
        \/ cbSecurityInitCookie(t)
        \/ cbFpreset(t)
        \/ cbInittermE(t)
        \/ cbInittermECheck(t)
        \/ cbInitterm(t)
        \/ cbReturn(t)
        \/ commonInitReturn(t)
        \/ _pei386_runtime_relocator(t)
        \/ doPseudoReloc(t)
        \/ pseudoRelocCallback(t)
        \/ __security_init_cookie(t, {EntropyA})
        \/ sicFixRead(t)
        \/ sicFixStore(t)
        \/ sicStoreCookie(t)
        \/ sicStoreComplement(t)
        \/ initterm(t)
        \/ initterm_e(t)

SpecExe == InitExe /\ [][NextExe]_vars

\* The user function an entry point is written to call.
UserOf(entry) ==
    CASE entry = "mainCRTStartup" -> "main"
      [] entry = "wmainCRTStartup" -> "wmain"
      [] entry = "WinMainCRTStartup" -> "WinMain"
      [] entry = "wWinMainCRTStartup" -> "wWinMain"

\* C23: a thread the loader started at an executable entry point never
\* leaves it; the user's function is called at most once, it is the function
\* of that entry point, and the guarded startup has completed before the
\* call; exit is called only with the value that function returned, and once
\* the process has ended in _exit the function was called exactly once.
C23_ExeEntry ==
    \A t \in Threads :
        calls[t] >= 1
        => LET mains == EventsOf(ThreadLog(t), "main")
               exits == SelectSeq(ThreadLog(t), IsExitCall)
           IN  /\ stack[t] # <<>>
               /\ Len(mains) <= 1
               /\ Len(exits) <= Len(mains)
               /\ Len(mains) = 1
                  => /\ mains[1].step = UserOf(crtSyms.entry)
                     /\ initOnce["common"] = "Done"
                     /\ \A i \in DOMAIN log :
                           log[i].ev = "main" => StartupCompleteBefore(i)
               /\ Len(exits) = 1
                  => /\ exits[1].slot = mains[1].slot
                     /\ FirstIndex(ThreadLog(t), LAMBDA e : e.ev = "main")
                        < FirstIndex(ThreadLog(t), IsExitCall)
               /\ proc = "exited" => Len(exits) = 1 /\ status = mains[1].slot

\* wWinMain returned 3 and the process has ended with that code.
C23_Witness ==
    /\ proc = "exited"
    /\ status = 3
    /\ crtSyms.entry = "wWinMainCRTStartup"
    /\ \E i \in DOMAIN log : log[i].ev = "main" /\ log[i].step = "wWinMain"

(***************************************************************************)
(* The dynamic TLS initialization callback (crt_windows_tls.cpp), and       *)
(* SpecTls: the loader calls it with every reason.                          *)
(***************************************************************************)
\* An image with dynamic TLS initializers xd: the .CRT section is XCA, XCZ,
\* XDA, user XD*, XDZ, XIA, XIZ, XPA, XPZ, XTA, XTZ.
TlsImage(xd) ==
    LET xd_a == 3
        xd_z == xd_a + Len(xd) + 1
    IN  [slots |-> <<0, 0, 0>> \o xd \o <<0, 0, 0, 0, 0, 0, 0>>,
         syms |-> [xc_a |-> 1, xc_z |-> 2, xd_a |-> xd_a, xd_z |-> xd_z,
                   xi_a |-> xd_z + 1, xi_z |-> xd_z + 2,
                   xp_a |-> xd_z + 3, xp_z |-> xd_z + 4,
                   xt_a |-> xd_z + 5, xt_z |-> xd_z + 6,
                   cxa_finalize |-> 1, thread_notifications |-> 0,
                   entry |-> "mainCRTStartup"]]

TlsImages ==
    {TlsImage(xd) : xd \in {<<>>, <<0>>, <<7>>, <<7, 8>>, <<7, 0, 8>>, <<0, 8, 0>>}}

\* The loader calls the TLS callback of the image for thread t.
CallTlsCallback(t, reason) ==
    /\ Enter(t, "__dyn_tls_init")
    /\ log' = Append(log, Event("enter", "__dyn_tls_init", reason, t))
    /\ local' = [local EXCEPT ![t] = [NoLocals EXCEPT !.reason = reason]]
    /\ UNCHANGED <<driverVars, arch, proc, status, debugOut, initOnce, relocVars, cookieVars,
                   fpState, crtSlots, crtSyms, fn>>

\* Not the program: the initializers run for every reason.
TlsInitAlways(reason) == TRUE

\* fdwReason == kDllThreadAttach || fdwReason == kDllProcessAttach
TlsInitReason(reason) == reason = kDllThreadAttach \/ reason = kDllProcessAttach

\* The test of the reason: the loop begins at __xd_a, or the callback returns.
__dyn_tls_init(t) ==
    /\ proc = "running"
    /\ Top(t) = "__dyn_tls_init"
    /\ IF TlsInitReason(local[t].reason)
       THEN /\ StartWalk(t, "dyn_tls", crtSyms.xd_a, crtSyms.xd_z)
            /\ Goto(t, "dyn_tls_loop")
       ELSE /\ Return(t)
            /\ UNCHANGED fn
    /\ UNCHANGED <<driverVars, arch, proc, status, debugOut, calls, initOnce, relocVars, cookieVars,
                   fpState, crtSlots, crtSyms, local, log>>

\* for (fn = __xd_a; fn < __xd_z; ++fn) if (*fn) (*fn)();   -- one iteration,
\* or the end of the loop and the return.
dynTlsLoop(t) ==
    /\ proc = "running"
    /\ Top(t) = "dyn_tls_loop"
    /\ IF fn[t].cur < fn[t].last
       THEN /\ IF crtSlots[fn[t].cur] # 0
               THEN /\ log' = Append(log, Event("invoke", "", fn[t].cur, t))
                    /\ fn' = [fn EXCEPT ![t].called = Append(@, fn[t].cur),
                                        ![t].cur = @ + 1]
               ELSE /\ fn' = [fn EXCEPT ![t].cur = @ + 1]
                    /\ UNCHANGED log
            /\ UNCHANGED stack
       ELSE /\ fn' = [fn EXCEPT ![t].done = TRUE]
            /\ Return(t)
            /\ UNCHANGED log
    /\ UNCHANGED <<driverVars, arch, proc, status, debugOut, calls, initOnce, relocVars, cookieVars,
                   fpState, crtSlots, crtSyms, local>>

InitTls ==
    /\ arch \in Archs
    /\ InitControl
    /\ InitImage({<<>>}, {NearSymbol(arch)}, {Nat2B(0, 8)}, {kPageReadonly}, {{}})
    /\ InitCookie({})
    /\ InitCrt(TlsImages)

NextTls ==
    \E t \in {1} :
        \/ \E reason \in DllReasons : CallTlsCallback(t, reason)
        \/ __dyn_tls_init(t)
        \/ dynTlsLoop(t)

SpecTls == InitTls /\ [][NextTls]_vars

\* C24: in a call of __dyn_tls_init the functions invoked are, for thread
\* attach and process attach, the non-null slots between __xd_a and __xd_z in
\* ascending order, each once (all of them when the call has returned); for
\* thread detach and process detach, none.
C24_DynTlsInit ==
    \A t \in Threads :
        (\E e \in Range(ThreadLog(t)) : e.ev = "enter")
        => LET invoked == EventsOf(CurrentCall(t), "invoke")
               all == Invocations(t, NonNullSlots(crtSyms.xd_a, crtSyms.xd_z))
           IN  IF CurrentEntry(t).slot \in {kDllThreadAttach, kDllProcessAttach}
               THEN /\ IsPrefix(invoked, all)
                    /\ stack[t] = <<>> => invoked = all
               ELSE invoked = <<>>

\* A thread attach has returned after invoking both initializers of an array
\* with a null slot between them, following an earlier call.
C24_Witness ==
    \E t \in Threads :
        /\ stack[t] = <<>>
        /\ calls[t] = 2
        /\ CurrentEntry(t).slot = kDllThreadAttach
        /\ Len(EventsOf(CurrentCall(t), "invoke")) = 2
        /\ \E i \in (crtSyms.xd_a + 1)..(crtSyms.xd_z - 1) : crtSlots[i] = 0

\* How often thread histories hold an event that satisfies P.
Count(P(_)) == Len(SelectSeq(log, P))
IsInitializerOf(slot, e) == e.ev \in {"invoke", "invoke_e"} /\ e.slot = slot
IsExplicitAttach(e) ==
    e.ev = "enter" /\ e.step = "_CRT_INIT" /\ e.slot = kDllProcessAttach

\* C25: as long as _CRT_INIT has been called with process attach at most
\* once, before or after the initialisation an entry point performs, no C
\* initializer and no C++ constructor of the module has been invoked more
\* than once.
C25_InitializedOncePerModule ==
    Count(IsExplicitAttach) <= 1
    => \A slot \in crtSyms.xc_a..crtSyms.xi_z :
           Count(LAMBDA e : IsInitializerOf(slot, e)) <= 1

(***************************************************************************)
(* SpecDllInit: the entry functions of a DLL whose relocation table has an  *)
(* entry to apply.                                                          *)
(***************************************************************************)
InitDllInit ==
    /\ arch \in Archs
    /\ InitControl
    /\ InitImage({PseudoRelocHeader(1)
                      \o PseudoRelocV2(Layout.iat, Layout.dataA, kRelocFlagSize32),
                  PseudoRelocV1(W(16), Layout.dataB)},
                 {NearSymbol(arch)}, {Nat2B(0, 8)}, {kPageReadonly}, {{}})
    /\ InitCookie({})
    /\ InitCrt({AsDll(CrtImage(<<2>>, <<1>>, <<4>>, <<5>>))})

NextDllInit ==
    \E t \in {1} :
        \/ \E e \in {"_DllMainCRTStartup", "_CRT_INIT"}, reason \in DllReasons,
              reserved \in {0, 1} : CallDllEntry(t, e, reason, reserved)
        \/ CRT_CXA_FINALIZE_CALL(t)
        \/ runPreterminators(t)
        \/ runTerminators(t)
        \/ _DllMainCRTStartup(t)
        \/ DllMainAttach(t)
        \/ DllMain(t)
        \/ _CRT_INIT(t)
        \/ crtInitInittermE(t)
        \/ crtInitCheck(t)
        \/ crtInitReturn(t)
        \/ commonInit(t)
        \/ cbRunPseudoRelocator(t)
        \/ cbSecurityInitCookie(t)
        \/ cbFpreset(t)
        \/ cbInittermE(t)
        \/ cbInittermECheck(t)
        \/ cbInitterm(t)
        \/ cbReturn(t)
        \/ commonInitReturn(t)
        \/ _pei386_runtime_relocator(t)
        \/ doPseudoReloc(t)
        \/ doPseudoRelocV2(t)
        \/ doPseudoRelocV1(t)
        \/ doPseudoRelocRestore(t)
        \/ pseudoRelocCallback(t)
        \/ __security_init_cookie(t, {EntropyA})
        \/ sicFixRead(t)
        \/ sicFixStore(t)
        \/ sicStoreCookie(t)
        \/ sicStoreComplement(t)
        \/ initterm(t)
        \/ initterm_e(t)

SpecDllInit == InitDllInit /\ [][NextDllInit]_vars

\* Event e is the invocation of a C initializer or a C++ constructor.
IsInitializer(e) ==
    e.ev \in {"invoke", "invoke_e"} /\ e.slot \in crtSyms.xc_a..crtSyms.xi_z

\* C26: when a C initializer or C++ constructor has been invoked - by the
\* guarded startup or by _CRT_INIT with process attach - the relocation pass
\* has completed and every entry of the table has been applied.
C26_RelocatedBeforeInitializers ==
    (\E i \in DOMAIN log : IsInitializer(log[i]))
    => initOnce["reloc"] = "Done" /\ AllApplied

(***************************************************************************)
(* SpecTerminate: an executable that has loaded a DLL built with this       *)
(* runtime runs from its entry point to the end of the process.             *)
(***************************************************************************)
TerminateImages ==
    LET exe == CrtImage(<<2>>, <<1>>, <<4>>, <<5>>)
    IN  {WithLoadedDll(im, <<7>>, <<8>>) : im \in {exe, WithoutCxaFinalize(exe)}}
        \cup {WithLoadedDll(exe, <<7, 0>>, <<>>), WithLoadedDll(exe, <<>>, <<>>)}

InitTerminate ==
    /\ arch \in Archs
    /\ InitControl
    /\ InitImage(SkippedTables, {NearSymbol(arch)}, {Nat2B(0, 8)}, {kPageReadonly}, {{}})
    /\ InitCookie({LoaderSeed(arch)})
    /\ InitCrt(TerminateImages)

NextTerminate ==
    \E t \in {1} :
        \/ StartProcess(t)
        \/ mainCRTStartup(t)
        \/ main(t)
        \/ exit(t)
        \/ _exit(t)
        \/ ExitProcess(t)
        \/ CRT_CXA_FINALIZE_CALL(t)
        \/ runPreterminators(t)
        \/ runTerminators(t)
        \/ _DllMainCRTStartup(t)
        \/ DllMain(t)
        \/ commonInit(t)
        \/ cbRunPseudoRelocator(t)
        \/ cbSecurityInitCookie(t)
        \/ cbFpreset(t)
        \/ cbInittermE(t)
        \/ cbInittermECheck(t)
        \/ cbInitterm(t)
        \/ cbReturn(t)
        \/ commonInitReturn(t)
        \/ _pei386_runtime_relocator(t)
        \/ doPseudoReloc(t)
        \/ pseudoRelocCallback(t)
        \/ __security_init_cookie(t, {EntropyA})
        \/ sicFixRead(t)
        \/ sicFixStore(t)
        \/ sicStoreCookie(t)
        \/ sicStoreComplement(t)
        \/ initterm(t)
        \/ initterm_e(t)

SpecTerminate == InitTerminate /\ [][NextTerminate]_vars

\* Slot i has been invoked.
Invoked(i) == \E k \in DOMAIN log : log[k].ev = "invoke" /\ log[k].slot = i

\* C27: when the process has ended through exit(), every pre-terminator and
\* terminator of a DLL that was loaded, and whose startup had completed, has
\* been invoked.
C27_ExitCleansLoadedModules ==
    (proc = "exited" /\ HasLoadedDll)
    => \A i \in crtSyms.dll.xp_a..crtSyms.dll.xt_z : crtSlots[i] # 0 => Invoked(i)

\* In its current call thread t has invoked a C initializer that returned
\* non-zero / a C++ constructor.
InitializerFailed(t) ==
    \E e \in Range(CurrentCall(t)) : e.ev = "invoke_e" /\ PifvResult(crtSlots[e.slot]) # 0
ConstructorRun(t) ==
    \E e \in Range(CurrentCall(t)) :
        e.ev = "invoke" /\ e.slot \in crtSyms.xc_a..crtSyms.xc_z

\* C28: a call of _CRT_INIT that has returned has returned FALSE if the
\* reason was process attach and a C initializer returned non-zero, and TRUE
\* in every other case and for every other reason; and in a call in which a C
\* initializer has returned non-zero no C++ constructor is run.
C28_CrtInitResult ==
    \A t \in Threads :
        ((\E e \in Range(ThreadLog(t)) : e.ev = "enter")
         /\ CurrentEntry(t).step = "_CRT_INIT")
        => /\ stack[t] = <<>>
              => local[t].result =
                     IF CurrentEntry(t).slot = kDllProcessAttach /\ InitializerFailed(t)
                     THEN 0 ELSE 1
           /\ (CurrentEntry(t).slot = kDllProcessAttach /\ InitializerFailed(t))
              => ~ConstructorRun(t)

\* _CRT_INIT has returned FALSE from a process attach in an image that has a
\* C++ constructor and a second C initializer.
C28_Witness ==
    \E t \in Threads :
        /\ InCall(t, "_CRT_INIT", kDllProcessAttach)
        /\ stack[t] = <<>>
        /\ local[t].result = 0
        /\ InitializerFailed(t)
        /\ crtSlots[crtSyms.xc_a + 1] # 0
        /\ crtSyms.xi_z - crtSyms.xi_a = 3

\* The slots of [first, last) that hold an initializer returning non-zero.
FailingSlots(first, last) ==
    {i \in first..(last - 1) : crtSlots[i] # 0 /\ PifvResult(crtSlots[i]) # 0}
Least(S) == CHOOSE i \in S : \A j \in S : i <= j

\* C29: at every point of a walk by initterm_e the entries invoked so far are
\* the non-null slots from first in ascending order, each once; the walk
\* returns at the first one that returns non-zero, with that value and with
\* no later entry invoked, and otherwise at last with every non-null slot
\* invoked and the value 0 (also for an empty or all-null range).
C29_InittermEWalk ==
    \A t \in Threads :
        fn[t].kind = "initterm_e"
        => LET failing == FailingSlots(fn[t].first, fn[t].last)
           IN  /\ fn[t].done <=> Top(t) # "initterm_e"
               /\ ~fn[t].done
                  => /\ fn[t].called = NonNullSlots(fn[t].first, fn[t].cur)
                     /\ FailingSlots(fn[t].first, fn[t].cur) = {}
               /\ fn[t].done
                  => IF failing # {}
                     THEN /\ fn[t].called = NonNullSlots(fn[t].first, Least(failing) + 1)
                          /\ fn[t].ret = PifvResult(crtSlots[Least(failing)])
                          /\ fn[t].ret # 0
                     ELSE /\ fn[t].called = NonNullSlots(fn[t].first, fn[t].last)
                          /\ fn[t].ret = 0

\* A walk has returned the value 2 of the first failing initializer, after a
\* successful one and with another failing one behind it.
C29_Witness ==
    \E t \in Threads :
        /\ fn[t].kind = "initterm_e"
        /\ fn[t].done
        /\ fn[t].ret = 2
        /\ Len(fn[t].called) = 2
        /\ Cardinality(FailingSlots(fn[t].first, fn[t].last)) = 2

(***************************************************************************)
(* The linker job of the Windows Itanium toolchain (WindowsItanium.cpp),    *)
(* and SpecDriver: the job is built for every command line.                 *)
(***************************************************************************)
MaxArgs == 3

\* The driver options the subsystem and entry-point code looks at, and
\* -municode; the architectures of the switch.
DriverOptions ==
    {"-shared", "-mwindows", "-mconsole", "-nostdlib", "-nostartfiles", "-municode",
     "-rtlib=platform"}
Triples == {"x86_64", "x86", "aarch64", "arm", "thumb"}

\* Args.hasArg(ids...): one of the options is on the command line.
hasArg(args, ids) == \E i \in DOMAIN args : args[i] \in ids

\* Not the program: the first of the options rather than the last.
getFirstArg(args, ids) ==
    IF hasArg(args, ids)
    THEN args[CHOOSE i \in DOMAIN args :
                  args[i] \in ids /\ \A j \in 1..(i - 1) : args[j] \notin ids]
    ELSE ""

\* Args.getLastArg(ids...): the last of the options on the command line, or
\* null ("").
getLastArg(args, ids) ==
    IF hasArg(args, ids)
    THEN args[CHOOSE i \in DOMAIN args :
                  args[i] \in ids /\ \A j \in (i + 1)..Len(args) : args[j] \notin ids]
    ELSE ""

\* A linker option "name:value" ("name" when value is empty).
LinkOpt(name, value) == [name |-> name, value |-> value]

\* switch (T.getArch()): the DLL entry symbol.
DllEntryPoint(triple) ==
    IF triple = "x86" THEN "_DllMainCRTStartup@12" ELSE "_DllMainCRTStartup"

\* What ConstructJob pushes from -auto-import to the -entry option.
LinkerArgs(triple, args) ==
    LET isDLL == hasArg(args, {"-shared"})
        SubsysArg == getLastArg(args, {"-mwindows", "-mconsole"})
        windows == SubsysArg # "" /\ SubsysArg = "-mwindows"
    IN  <<LinkOpt("-auto-import", ""), LinkOpt("-incremental", "no")>>
        \o (IF ~isDLL
            THEN <<LinkOpt("-subsystem", IF windows THEN "windows" ELSE "console")>>
            ELSE <<>>)
        \o (IF isDLL
            THEN <<LinkOpt("-dll", ""), LinkOpt("-implib", "lib"),
                   LinkOpt("-entry", DllEntryPoint(triple))>>
            ELSE IF ~hasArg(args, {"-nostdlib", "-nostartfiles"})
            THEN <<LinkOpt("-entry", IF windows THEN "WinMainCRTStartup"
                                     ELSE "mainCRTStartup")>>
            ELSE <<>>)

\* TC.GetRuntimeLibType(Args) == ToolChain::RLT_CompilerRT: compiler-rt is the
\* default of this toolchain, -rtlib=platform selects the other.
UseCompilerRT(args) == ~hasArg(args, {"-rtlib=platform"})

\* The CRT startup object ConstructJob links: crt_dllmain, crt_winmain or
\* crt_main from compiler-rt, when startup files are wanted, compiler-rt is
\* the runtime library and the object exists in the file system.
CrtStartupArgs(args, exists) ==
    IF ~hasArg(args, {"-nostdlib", "-nostartfiles"}) /\ UseCompilerRT(args) /\ exists
    THEN LET CRTVariant == IF hasArg(args, {"-shared"}) THEN "dllmain"
                           ELSE IF hasArg(args, {"-mwindows"}) THEN "winmain"
                           ELSE "main"
         IN  <<LinkOpt("crt", CRTVariant)>>
    ELSE <<>>

\* Linker::ConstructJob builds the command line of the link.
ConstructJob ==
    /\ CmdArgs = <<>>
    /\ \E exists \in BOOLEAN :
          CmdArgs' = LinkerArgs(T, Args) \o CrtStartupArgs(Args, exists)
    /\ UNCHANGED <<Args, T, cmdVars, arch, proc, status, debugOut, stack, calls, initOnce,
                   relocVars, cookieVars, crtVars>>

InitDriver ==
    /\ Args \in SeqsUpTo({<<o>> : o \in DriverOptions}, MaxArgs)
    /\ T \in Triples
    /\ CmdArgs = <<>>
    /\ cmdLine = <<>>
    /\ cmdPtr = 0
    /\ inQuotes = FALSE
    /\ arch = IF T \in {"x86_64", "aarch64"} THEN "x64" ELSE "x86"
    /\ proc = "running"
    /\ status = 0
    /\ debugOut = <<>>
    /\ stack = [t \in Threads |-> <<>>]
    /\ calls = [t \in Threads |-> 0]
    /\ initOnce = [g \in {"common", "reloc"} |-> "Uninit"]
    /\ InitImage({<<>>}, {NearSymbol(arch)}, {Nat2B(0, 8)}, {kPageReadonly}, {{}})
    /\ InitCookie({})
    /\ InitCrt({CrtImage(<<>>, <<>>, <<>>, <<>>)})

NextDriver == ConstructJob

SpecDriver == InitDriver /\ [][NextDriver]_vars

\* The -entry options of a linker command line.
EntryOptions(cmd) == SelectSeq(cmd, LAMBDA o : o.name = "-entry")
WithoutMunicode(args) == SelectSeq(args, LAMBDA a : a # "-municode")
Shared == "-shared" \in Range(Args)
LastSubsystemIsWindows ==
    \E i \in DOMAIN Args :
        /\ Args[i] = "-mwindows"
        /\ \A j \in (i + 1)..Len(Args) : Args[j] \notin {"-mwindows", "-mconsole"}

\* C30: the linker command line holds, for -shared, the one entry option
\* _DllMainCRTStartup - with the suffix @12 on 32-bit x86 and only there -
\* whether or not -nostartfiles or -nostdlib is given; for an executable no
\* entry option when -nostdlib or -nostartfiles is given, and otherwise the
\* one entry option WinMainCRTStartup when the last of -mwindows and
\* -mconsole is -mwindows, and mainCRTStartup when it is not; and the entry
\* options are those of the same command line without -municode.
C30_EntrySymbol ==
    CmdArgs # <<>>
    => /\ EntryOptions(CmdArgs) =
              IF Shared
              THEN <<LinkOpt("-entry", IF T = "x86" THEN "_DllMainCRTStartup@12"
                                       ELSE "_DllMainCRTStartup")>>
              ELSE IF "-nostdlib" \in Range(Args) \/ "-nostartfiles" \in Range(Args)
              THEN <<>>
              ELSE IF LastSubsystemIsWindows
              THEN <<LinkOpt("-entry", "WinMainCRTStartup")>>
              ELSE <<LinkOpt("-entry", "mainCRTStartup")>>
       /\ EntryOptions(CmdArgs) = EntryOptions(LinkerArgs(T, WithoutMunicode(Args)))

\* The command line -mconsole -municode -mwindows was linked with the entry
\* WinMainCRTStartup.
C30_Witness ==
    /\ Args = <<"-mconsole", "-municode", "-mwindows">>
    /\ EntryOptions(CmdArgs) = <<LinkOpt("-entry", "WinMainCRTStartup")>>

\* The entry point a compiler-rt startup object defines (crt_windows.cpp), and
\* the symbol an entry option names, without the stdcall decoration.
EntryDefinedBy(variant) ==
    CASE variant = "main" -> "mainCRTStartup"
      [] variant = "winmain" -> "WinMainCRTStartup"
      [] variant = "dllmain" -> "_DllMainCRTStartup"
Undecorated(symbol) ==
    IF symbol = "_DllMainCRTStartup@12" THEN "_DllMainCRTStartup" ELSE symbol
CrtObjects(cmd) == SelectSeq(cmd, LAMBDA o : o.name = "crt")

\* C31: when the linker command line holds both an entry option and a
\* compiler-rt startup object, the entry symbol is the one that object
\* defines.
C31_EntryMatchesStartupObject ==
    \A e \in Range(EntryOptions(CmdArgs)), c \in Range(CrtObjects(CmdArgs)) :
        Undecorated(e.value) = EntryDefinedBy(c.value)

\* C32: in a call of _DllMainCRTStartup for process detach with a null
\* reserved argument, DllMain is called at most once, with the detach reason,
\* and what the call did before it is exactly the finalization for this
\* module (if __cxa_finalize is linked), the pre-terminators and the
\* terminators, in this order; nothing follows it, and when the call has
\* returned DllMain was called and its result is the result of the call.
C32_DetachOrder ==
    \A t \in Threads :
        (/\ InCall(t, "_DllMainCRTStartup", kDllProcessDetach)
         /\ local[t].reserved = 0)
        => LET call == CurrentCall(t)
               k == FirstIndex(call, LAMBDA e : e.ev = "DllMain")
           IN  /\ k = 0 => IsPrefix(call, CleanupOf(t, "__dso_handle"))
               /\ k # 0
                  => /\ SubSeq(call, 1, k - 1) = CleanupOf(t, "__dso_handle")
                     /\ k = Len(call)
                     /\ call[k].step = "DLL_PROCESS_DETACH"
               /\ stack[t] = <<>> => k # 0 /\ local[t].result = call[k].slot

\* Such a call has returned the result 5 of DllMain in a DLL with two
\* pre-terminators and __cxa_finalize.
C32_Witness ==
    \E t \in Threads :
        /\ InCall(t, "_DllMainCRTStartup", kDllProcessDetach)
        /\ local[t].reserved = 0
        /\ stack[t] = <<>>
        /\ local[t].result = 5
        /\ crtSyms.cxa_finalize # 0
        /\ Len(NonNullSlots(crtSyms.xp_a, crtSyms.xp_z)) = 2
        /\ Len(CurrentCall(t)) = 7

(***************************************************************************)
(* SpecRelocSizes: one thread calls the relocator on V2 tables whose        *)
(* entries have every size class the switch of applyRelocV2 tells apart: 8, *)
(* 16 and 32, and the classes 0 and 24 that it does not know.               *)
(***************************************************************************)
SizeEntries ==
    {PseudoRelocV2(Layout.iat, Layout.dataA, kRelocFlagSize8),
     PseudoRelocV2(Layout.iat, Layout.dataA, kRelocFlagSize16),
     PseudoRelocV2(Layout.iat, Layout.text, kRelocFlagSize16),
     PseudoRelocV2(Layout.iat, Layout.dataB, kRelocFlagSize32),
     PseudoRelocV2(Layout.iat, Layout.dataA, 0),
     PseudoRelocV2(Layout.iat, Layout.dataA, 24)}

SizeTables == {PseudoRelocHeader(1) \o es : es \in SeqsUpTo(SizeEntries, MaxEntries)}

InitRelocSizes ==
    /\ arch \in Archs
    /\ InitControl
    /\ InitImage(SizeTables, SymPointers(arch), TargetValues, {kPageReadonly},
                 {{}, {TextPage}})
    /\ InitCookie({})
    /\ InitCrt({CrtImage(<<>>, <<>>, <<>>, <<>>)})

NextRelocSizes ==
    \E t \in {1} :
        \/ CallRelocator(t)
        \/ _pei386_runtime_relocator(t)
        \/ doPseudoReloc(t)
        \/ doPseudoRelocV2(t)
        \/ doPseudoRelocRestore(t)
        \/ pseudoRelocCallback(t)

SpecRelocSizes == InitRelocSizes /\ [][NextRelocSizes]_vars

\* The thread is about to process a V2 entry; its size class.
AtV2Entry(t) == proc = "running" /\ Top(t) = "relocV2" /\ reloc[t] <= Len(table)
SizeClass(t) == BitAnd(B2Nat(EntryV2(reloc[t]).flags), kRelocFlagSizeMask)

\* C33: the iteration for a V2 entry whose size class is not 8, 16, 32 or 64
\* writes no memory, changes no page protection, uses no modified-section
\* record, and goes on to the next entry with the process still running.
C33_UnknownSizeSkipped ==
    [][\A t \in Threads :
          (AtV2Entry(t)
           /\ SizeClass(t) \notin {kRelocFlagSize8, kRelocFlagSize16, kRelocFlagSize32,
                                   kRelocFlagSize64})
          => /\ mem' = mem
             /\ prot' = prot
             /\ g_modifiedSections' = g_modifiedSections
             /\ reloc'[t] = reloc[t] + 3
             /\ proc' = "running"]_vars

(***************************************************************************)
(* SpecProtections: one thread calls the relocator on a table with one      *)
(* entry, for every protection the page of the target can have at load.     *)
(***************************************************************************)
\* The values of MEMORY_BASIC_INFORMATION.Protect: PAGE_NOACCESS,
\* PAGE_READONLY, PAGE_READWRITE, PAGE_WRITECOPY, PAGE_EXECUTE,
\* PAGE_EXECUTE_READ, PAGE_EXECUTE_READWRITE, PAGE_EXECUTE_WRITECOPY.
PageProtections == {1, 2, 4, 8, 16, 32, 64, 128}
\* Those of them that allow execution.
ExecutableProtections == {16, 32, 64, 128}

ProtectionTables ==
    {PseudoRelocHeader(1) \o PseudoRelocV2(Layout.iat, Layout.dataA, kRelocFlagSize32),
     PseudoRelocV1(W(16), Layout.dataA)}

InitProtections ==
    /\ arch \in Archs
    /\ InitControl
    /\ InitImage(ProtectionTables, {NearSymbol(arch)}, {Nat2B(0, 8)}, PageProtections, {{}})
    /\ InitCookie({})
    /\ InitCrt({CrtImage(<<>>, <<>>, <<>>, <<>>)})

SpecProtections == InitProtections /\ [][NextReloc]_vars

\* C34: an iteration of the relocation loop gives a page it changes the
\* protection PAGE_EXECUTE_READWRITE when the page allowed execution and
\* PAGE_READWRITE otherwise, so no page gains or loses execute permission.
C34_ExecutePreserved ==
    [][\A t \in Threads :
          (proc = "running" /\ Top(t) \in {"relocV2", "relocV1"} /\ reloc[t] <= Len(table))
          => \A p \in DOMAIN prot :
                 /\ prot'[p] # prot[p]
                    => prot'[p] = IF prot[p] \in ExecutableProtections
                                  THEN kPageExecuteReadwrite ELSE kPageReadwrite
                 /\ prot'[p] \in ExecutableProtections <=> prot[p] \in ExecutableProtections]_vars

\* C35: the iteration for a V2 entry of size class 8 or 16 leaves at
\* base+target the old value plus delta modulo 2^8 or 2^16, changes no byte
\* outside the 1 or 2 bytes of the target, and is never fatal.
C35_NarrowAddWraps ==
    [][\A t \in Threads :
          (AtV2Entry(t) /\ SizeClass(t) \in {kRelocFlagSize8, kRelocFlagSize16})
          => LET r == EntryV2(reloc[t])
                 w == SizeClass(t) \div 8
                 targetAddr == getImageBase + B2Nat(r.target)
                 old == B2Nat(Load(mem, targetAddr, w))
                 delta == B2Nat(Truncate(RelocDelta(mem, arch, getImageBase, r), w))
             IN  /\ Load(mem', targetAddr, w) = Nat2B((old + delta) % Pow256(w), w)
                 /\ \A a \in DOMAIN mem \ (targetAddr..(targetAddr + w - 1)) : mem'[a] = mem[a]
                 /\ proc' = "running"]_vars

\* The address the loader mapped the DLL at (the hinstDLL its entry point is
\* given), 0x10000000; the executable is at getImageBase.
hinstDLL == 268435456
\* The load address of the module whose startup code is running.
LoadAddress == IF crtSyms.entry = "_DllMainCRTStartup" THEN hinstDLL ELSE getImageBase

\* The bytes [LoadAddress + target, LoadAddress + target + n) of the module.
TargetBytes(target, n) ==
    (LoadAddress + B2Nat(target))..(LoadAddress + B2Nat(target) + n - 1)

\* C36: in the startup of a DLL, an iteration of the relocation loop changes
\* memory only at the entry's target offset from the load address of the DLL.
C36_BaseIsContainingModule ==
    [][\A t \in Threads :
          (proc = "running" /\ crtSyms.entry = "_DllMainCRTStartup"
           /\ Top(t) \in {"relocV2", "relocV1"} /\ reloc[t] <= Len(table))
          => LET bytes == IF Top(t) = "relocV1"
                          THEN TargetBytes(EntryV1(reloc[t]).target, 4)
                          ELSE TargetBytes(EntryV2(reloc[t]).target, SizeClass(t) \div 8)
             IN  \A a \in DOMAIN mem : mem'[a] # mem[a] => a \in bytes]_vars

(***************************************************************************)
(* SpecCleanup: the threads of a process call the functions that run the    *)
(* cleanup of a module: _cexit and exit in an executable, _CRT_INIT and     *)
(* _DllMainCRTStartup with DLL_PROCESS_DETACH in a DLL.                      *)
(***************************************************************************)
\* A thread calls the exported _cexit() or exit(0).
CallCleanup(t, f) ==
    /\ Enter(t, f)
    /\ local' = [local EXCEPT ![t] = NoLocals]
    /\ UNCHANGED <<driverVars, arch, proc, status, debugOut, initOnce, relocVars, cookieVars,
                   fpState, crtSlots, crtSyms, fn, log>>

InitCleanup ==
    /\ arch \in Archs
    /\ InitControl
    /\ InitImage({<<>>}, {NearSymbol(arch)}, {Nat2B(0, 8)}, {kPageReadonly}, {{}})
    /\ InitCookie({})
    /\ \E im \in {CrtImage(<<>>, <<>>, <<4>>, <<5>>)} : InitCrt({im, AsDll(im)})

\* The calls made so far by all threads.
RECURSIVE TotalCalls(_)
TotalCalls(n) == IF n = 0 THEN 0 ELSE calls[n] + TotalCalls(n - 1)

NextCleanup ==
    \E t \in Threads :
        \/ /\ TotalCalls(NumThreads) < MaxCalls
           /\ \/ /\ crtSyms.entry = "mainCRTStartup"
                 /\ \E f \in {"_cexit", "exit"} : CallCleanup(t, f)
              \/ /\ crtSyms.entry = "_DllMainCRTStartup"
                 /\ \E e \in {"_DllMainCRTStartup", "_CRT_INIT"}, reserved \in {0, 1} :
                        CallDllEntry(t, e, kDllProcessDetach, reserved)
        \/ _cexit(t)
        \/ exit(t)
        \/ _exit(t)
        \/ CRT_CXA_FINALIZE_CALL(t)
        \/ runPreterminators(t)
        \/ runTerminators(t)
        \/ initterm(t)
        \/ _DllMainCRTStartup(t)
        \/ DllMain(t)
        \/ _CRT_INIT(t)
        \/ crtInitReturn(t)

SpecCleanup == InitCleanup /\ [][NextCleanup]_vars

\* C37: whatever cleanup functions the threads call, the pre-terminator array
\* and the terminator array of the module are each run at most once, and so
\* is every function in them.
C37_CleanupAtMostOnce ==
    /\ Count(LAMBDA e : e.ev = "call" /\ e.step = "runPreterminators") <= 1
    /\ Count(LAMBDA e : e.ev = "call" /\ e.step = "runTerminators") <= 1
    /\ \A i \in DOMAIN crtSlots : Count(LAMBDA e : e.ev = "invoke" /\ e.slot = i) <= 1

(***************************************************************************)
(* SpecMalformed: one thread calls the relocator on tables that are not a   *)
(* header and whole entries: shorter than the header, or ending inside an   *)
(* entry.                                                                   *)
(***************************************************************************)
MalformedTables ==
    LET v2 == PseudoRelocV2(Layout.iat, Layout.dataA, kRelocFlagSize32)
        v1 == PseudoRelocV1(W(16), Layout.dataA)
    IN  {<<W(16)>>,                                    \* 4 bytes
         <<W(0)>>,                                     \* 4 bytes of zero
         <<W(0), W(0)>>,                               \* a V1 entry that is all zero
         PseudoRelocHeader(1) \o v2,                   \* well formed V2
         PseudoRelocHeader(1) \o v2 \o <<W(Layout.iat)>>,
         PseudoRelocHeader(1) \o v2 \o <<W(Layout.iat), W(Layout.dataB)>>,
         v1,                                           \* well formed V1
         v1 \o <<W(16)>>}

InitMalformed ==
    /\ arch \in Archs
    /\ InitControl
    /\ InitImage(MalformedTables, {NearSymbol(arch)}, {Nat2B(0, 8)}, {kPageReadonly}, {{}})
    /\ InitCookie({})
    /\ InitCrt({CrtImage(<<>>, <<>>, <<>>, <<>>)})

SpecMalformed == InitMalformed /\ [][NextReloc]_vars

\* The words of the table that doPseudoReloc reads to tell the format:
\* magic1, then magic2 if magic1 is 0, then version if both are 0.
HeaderWords ==
    {1} \cup (IF table[1] # W(0) THEN {}
              ELSE {2} \cup (IF Len(table) >= 2 /\ table[2] = W(0) THEN {3} ELSE {}))

\* C38: every word that the relocation pass is about to read, of the header
\* or of the entry of the current iteration, lies before the end of the table.
C38_ReadsInsideTable ==
    \A t \in Threads :
        proc = "running"
        => /\ (Top(t) = "doPseudoReloc" /\ Len(table) > 0)
              => HeaderWords \subseteq 1..Len(table)
           /\ (Top(t) = "relocV2" /\ reloc[t] <= Len(table)) => reloc[t] + 2 <= Len(table)
           /\ (Top(t) = "relocV1" /\ reloc[t] <= Len(table)) => reloc[t] + 1 <= Len(table)

(***************************************************************************)
(* SpecSections: threads call the relocator concurrently, on tables that    *)
(* need one record of g_modifiedSections, all 64, and one more than 64.     *)
(***************************************************************************)
InitSections ==
    /\ arch \in Archs
    /\ InitControl
    /\ InitImage({PseudoRelocV1(W(16), Layout.dataB),
                  CapacityTable(kMaxModifiedSections),
                  CapacityTable(kMaxModifiedSections + 1)},
                 {NearSymbol(arch)}, {Nat2B(0, 8)}, {kPageReadonly}, {{}})
    /\ InitCookie({})
    /\ InitCrt({CrtImage(<<>>, <<>>, <<>>, <<>>)})

NextSections ==
    \E t \in Threads :
        \/ CallRelocator(t)
        \/ _pei386_runtime_relocator(t)
        \/ doPseudoReloc(t)
        \/ doPseudoRelocV2(t)
        \/ doPseudoRelocV1(t)
        \/ doPseudoRelocRestore(t)
        \/ pseudoRelocCallback(t)

SpecSections == InitSections /\ [][NextSections]_vars

\* Thread t is inside doPseudoReloc, the only code that uses the table.
InPass(t) == \E k \in DOMAIN stack[t] : stack[t][k] \in {"doPseudoReloc", "relocV2", "relocV1"}
\* Thread t is running the callback of the relocation init-once guard.
WonGuard(t) == initOnce["reloc"] = "Pending" /\ "pei386_ret" \in Range(stack[t])

\* C39: g_numModifiedSections is always between 0 and 64, and is 0 whenever no
\* thread is inside a relocation pass (before it starts, after it returns);
\* only a thread that won the init-once guard is ever inside a pass, at most
\* one thread is, and every change of the table is a step of that thread.
C39_SectionRecords ==
    /\ [](Len(g_modifiedSections) \in 0..kMaxModifiedSections)
    /\ []((\A t \in Threads : ~InPass(t)) => g_modifiedSections = <<>>)
    /\ [](\A t \in Threads : InPass(t) => WonGuard(t))
    /\ [](\A t, u \in Threads : InPass(t) /\ InPass(u) => t = u)
    /\ [][g_modifiedSections' # g_modifiedSections
          => \E t \in Threads :
                 InPass(t) /\ WonGuard(t) /\ (stack'[t] # stack[t] \/ reloc'[t] # reloc[t])]_vars

\* A pass that used all 64 records has returned and the table is empty again,
\* while every thread has called the relocator.
C39_Witness ==
    /\ initOnce["reloc"] = "Done"
    /\ Len(applied) = kMaxModifiedSections
    /\ g_modifiedSections = <<>>
    /\ \A t \in Threads : calls[t] >= 1 /\ stack[t] = <<>>

(***************************************************************************)
(* SpecCmdLine: getWinMainCmdLineA/W (getWinMainCmdLineImpl<CharT>) on      *)
(* every command line of up to MaxLen characters.                           *)
(***************************************************************************)
MaxLen == 5

\* CmdLineTraits<CharT>::Space, Tab, Quote; one other character.
Space == " "
Tab == "\t"
Quote == "\""
CmdLineChars == {Space, Tab, Quote, "a"}

\* *cmdline for the index i: the character, or NUL at the end of the string.
CharAt(i) == IF i <= Len(cmdLine) THEN cmdLine[i] ELSE "NUL"

\* Not the program: only the space separates.
IsSpaceOnly(c) == c = Space

\* c == Traits::Space || c == Traits::Tab
IsBlank(c) == c = Space \/ c = Tab

\* WinMainCRTStartup / wWinMainCRTStartup call crt::getWinMainCmdLineA/W.
CallGetWinMainCmdLine(t) ==
    /\ Enter(t, "getWinMainCmdLine")
    /\ UNCHANGED <<Args, T, CmdArgs, cmdVars, arch, proc, status, debugOut, initOnce,
                   relocVars, cookieVars, crtVars>>

\* CharT* cmdline = Traits::GetCommandLine(); bool inQuotes = false;
getWinMainCmdLineImpl(t) ==
    /\ proc = "running"
    /\ Top(t) = "getWinMainCmdLine"
    /\ cmdPtr' = 1
    /\ inQuotes' = FALSE
    /\ Goto(t, "skipProgramName")
    /\ UNCHANGED <<Args, T, CmdArgs, cmdLine, arch, proc, status, debugOut, calls, initOnce,
                   relocVars, cookieVars, crtVars>>

\* One test of the first loop, and its body: while (*cmdline) { ... ++cmdline; }
skipProgramName(t) ==
    /\ proc = "running"
    /\ Top(t) = "skipProgramName"
    /\ IF CharAt(cmdPtr) = "NUL"
       THEN Goto(t, "skipWhitespace") /\ UNCHANGED <<cmdPtr, inQuotes>>
       ELSE IF CharAt(cmdPtr) = Quote
       THEN inQuotes' = ~inQuotes /\ cmdPtr' = cmdPtr + 1 /\ UNCHANGED stack
       ELSE IF IsBlank(CharAt(cmdPtr)) /\ ~inQuotes
       THEN Goto(t, "skipWhitespace") /\ UNCHANGED <<cmdPtr, inQuotes>>
       ELSE cmdPtr' = cmdPtr + 1 /\ UNCHANGED <<inQuotes, stack>>
    /\ UNCHANGED <<Args, T, CmdArgs, cmdLine, arch, proc, status, debugOut, calls, initOnce,
                   relocVars, cookieVars, crtVars>>

\* One test of the second loop, and its body or the return of cmdline.
skipWhitespace(t) ==
    /\ proc = "running"
    /\ Top(t) = "skipWhitespace"
    /\ IF IsBlank(CharAt(cmdPtr))
       THEN cmdPtr' = cmdPtr + 1 /\ UNCHANGED stack
       ELSE Return(t) /\ UNCHANGED cmdPtr
    /\ UNCHANGED <<Args, T, CmdArgs, cmdLine, inQuotes, arch, proc, status, debugOut, calls,
                   initOnce, relocVars, cookieVars, crtVars>>

InitCmdLine ==
    /\ arch \in Archs
    /\ proc = "running"
    /\ status = 0
    /\ debugOut = <<>>
    /\ stack = [t \in Threads |-> <<>>]
    /\ calls = [t \in Threads |-> 0]
    /\ initOnce = [g \in {"common", "reloc"} |-> "Uninit"]
    /\ Args = <<>>
    /\ T = ""
    /\ CmdArgs = <<>>
    /\ cmdLine \in SeqsUpTo({<<c>> : c \in CmdLineChars}, MaxLen)
    /\ cmdPtr = 0
    /\ inQuotes = FALSE
    /\ InitImage({<<>>}, {NearSymbol(arch)}, {Nat2B(0, 8)}, {kPageReadonly}, {{}})
    /\ InitCookie({})
    /\ InitCrt({CrtImage(<<>>, <<>>, <<>>, <<>>)})

NextCmdLine ==
    \E t \in {1} :
        \/ CallGetWinMainCmdLine(t)
        \/ getWinMainCmdLineImpl(t)
        \/ skipProgramName(t)
        \/ skipWhitespace(t)

SpecCmdLine == InitCmdLine /\ [][NextCmdLine]_vars

\* The number of double quotes before character i of the command line.
QuotesBefore(i) == Cardinality({k \in 1..(i - 1) : cmdLine[k] = Quote})
\* The end of the first token: the first space or tab outside quotes, or the
\* end of the string.
TokenEnd ==
    Least({i \in 1..Len(cmdLine) : cmdLine[i] \in {Space, Tab} /\ QuotesBefore(i) % 2 = 0}
              \cup {Len(cmdLine) + 1})
\* The first character at or after the end of the token that is no space or
\* tab (the NUL if there is none).
ArgsStart == Least({i \in TokenEnd..(Len(cmdLine) + 1) : CharAt(i) \notin {Space, Tab}})
\* The command line has nothing but blanks after its first token.
NoArguments == \A i \in TokenEnd..Len(cmdLine) : cmdLine[i] \in {Space, Tab}

\* C40: the scan of getWinMainCmdLine never goes past the terminating NUL,
\* and what it returns is the position after the first token and the spaces
\* and tabs that follow it: not a space or tab, and the NUL (the empty
\* string) when there are no arguments.
C40_WinMainCmdLine ==
    /\ cmdPtr <= Len(cmdLine) + 1
    /\ (calls[1] >= 1 /\ stack[1] = <<>>)
       => /\ cmdPtr = ArgsStart
          /\ CharAt(cmdPtr) \notin {Space, Tab}
          /\ NoArguments => CharAt(cmdPtr) = "NUL"

\* The call has returned the "a" that follows a quoted program name with a
\* space in it and a tab.
C40_Witness ==
    /\ calls[1] >= 1 /\ stack[1] = <<>>
    /\ cmdLine = <<Quote, Space, Quote, Tab>> \o <<"a">>
    /\ cmdPtr = 5

=============================================================================
